---- MODULE Spec2Model ----
(***************************************************************************)
(* Model of the annotation viewer of extraction_mapping: the Home page     *)
(* component (processingState and its handlers, src/unnamed/part_005) and  *)
(* the ImageAnnotator component (pointer gestures, hit-testing and the     *)
(* coordinate transforms, src/frontend/src/components/ImageAnnotator.tsx). *)
(***************************************************************************)
EXTENDS Integers, Sequences, FiniteSets, TLC

(***************************************************************************)
(* Bounds of the model.                                                    *)
(***************************************************************************)
\* pages of an uploaded document
NumPages == 2
\* annotations drawn by hand in the gesture-level specification (calls of uuidv4)
MaxUuid == 1
\* calls of the table auto-detect service in the gesture-level specification
MaxDetect == 1
\* calls of the table auto-detect service in the navigation- and selection-level specifications
MaxRedetect == 2
\* invocations of handleProcessAnnotations in the batch-level specification
MaxBatch == 1
\* presses of Process Annotations in the navigation-level specification
MaxPress == 2
\* documents uploaded
MaxUpload == 1
MaxReupload == 2
\* pointer-move updates of a bbox
MaxMove == 1
MaxDrag == 2
\* annotations handed to handleCreateAnnotation in the batch-level specification
MaxDrawn == 3
MaxZoom == 1
MaxParts == 2
MaxPages == 3
MaxFields == 2

Pages == 1..NumPages
PageKeys == 0..NumPages

\* Absent values (null / undefined of the source).
NoId == 0
NoPoint == <<>>
NoBbox == <<>>
NoHandle == "none"

Min(a, b) == IF a <= b THEN a ELSE b
Max(a, b) == IF a >= b THEN a ELSE b
Abs(a) == IF a >= 0 THEN a ELSE 0 - a

\* Pointer positions, in image space, of the gesture-level specification.
DownPoints == {<<0, 0>>, <<95, 10>>, <<150, 150>>}
MovePoints == {<<150, 150>>}
UpPoints == {<<8, 8>>, <<10, 10>>, <<100, 100>>}

\* Boxes handed to handleCreateAnnotation in the batch-level specification.
DrawnBoxes == {<<0, 0, 100, 100>>}

VARIABLES
  pdfInfo,            \* Home: 0 = undefined, else the number of the uploaded document
  processingState,    \* Home: the processingState record
  nextUuid,           \* the next value uuidv4 returns
  batches,            \* running invocations of handleProcessAnnotations
  detects,            \* running invocations of handleDetectTables
  nDetect,            \* detect-tables calls made so far
  nBatch,             \* handleProcessAnnotations invocations so far
  nMove,              \* pointer-move bbox updates so far
  nUpload,            \* documents uploaded so far
  zoomLevel,          \* ImageAnnotator state
  panOffset,
  nZoom,              \* zoom operations so far
  localRotation,
  isDrawing,
  startPoint,
  currentPoint,
  selectedAnnotation,
  resizeHandle,
  initialBbox,
  lastOp,             \* history: the handler that ran last
  lastSize,           \* history: width and height of the box a pointer-up measured
  lastGesture,        \* history: the gesture in progress when it started
  lastTables,         \* history: the tables of the detect-tables response just handled
  tIn,                \* transform check: the image-space point
  tOut,               \* transform check: the point after the round trip
  textLines,          \* ImageAnnotator: the OCR text lines of the page shown
  hoveredBox          \* ImageAnnotator state: index of the hovered text line, 0 = null

homeVars == <<pdfInfo, processingState, nextUuid>>
asyncVars == <<batches, detects, nDetect, nBatch, nUpload>>
gestureVars == <<isDrawing, startPoint, currentPoint, selectedAnnotation, resizeHandle, initialBbox>>
viewVars == <<zoomLevel, panOffset, localRotation, nZoom>>
histVars == <<lastOp, lastSize, lastGesture, lastTables>>
transformVars == <<tIn, tOut, textLines, hoveredBox>>
vars == <<homeVars, asyncVars, nMove, gestureVars, viewVars, histVars, transformVars>>

(***************************************************************************)
(* Home: processingState.                                                  *)
(***************************************************************************)
InitialProcessingState ==
  [isProcessing |-> FALSE,
   currentPage |-> 0,
   processedPages |-> <<>>,
   annotationMode |-> FALSE,
   annotations |-> [p \in PageKeys |-> <<>>],
   currentAnnotationType |-> "text",
   pageRotations |-> [p \in PageKeys |-> 0],
   selectedAnnotationId |-> NoId]

\* prev.annotations[prev.currentPage] || []
PageAnnotations(prev) == prev.annotations[prev.currentPage]

\* The ImageAnnotator is rendered only for a processed document with a page shown.
Mounted == Len(processingState.processedPages) > 0 /\ processingState.currentPage > 0

\* The annotations prop of the ImageAnnotator.
annotations == PageAnnotations(processingState)

\* The rotation prop; onRotationChange is always passed, so it is the effective rotation.
getEffectiveRotation == processingState.pageRotations[processingState.currentPage]

Gesture ==
  IF ~isDrawing THEN "none"
  ELSE IF resizeHandle # NoHandle /\ selectedAnnotation # NoId THEN resizeHandle
  ELSE "draw"

\* The history after a handler of Home.
NoHist ==
  /\ lastOp' = "home"
  /\ lastSize' = NoPoint
  /\ lastGesture' = "none"
  /\ lastTables' = <<>>

\* The history after handleDetectTables has handled a response.
SetDetectHist(tables) ==
  /\ lastOp' = "handleDetectTables"
  /\ lastSize' = NoPoint
  /\ lastGesture' = "none"
  /\ lastTables' = tables

\* The history of a pointer handler that starts or continues a gesture.
SetHist(op) ==
  /\ lastOp' = op
  /\ lastSize' = NoPoint
  /\ lastGesture' = "none"
  /\ lastTables' = <<>>

\* The history of a pointer handler that ends a gesture.
SetGestureHist(op, size) ==
  /\ lastOp' = op
  /\ lastSize' = size
  /\ lastGesture' = Gesture
  /\ lastTables' = <<>>

FreshViewer ==
  /\ zoomLevel' = <<1, 1>>
  /\ panOffset' = <<0, 0>>
  /\ localRotation' = 0
  /\ nZoom' = nZoom
  /\ isDrawing' = FALSE
  /\ startPoint' = NoPoint
  /\ currentPoint' = NoPoint
  /\ selectedAnnotation' = NoId
  /\ resizeHandle' = NoHandle
  /\ initialBbox' = NoBbox

(***************************************************************************)
(* Home: upload, page selection, page change.                              *)
(***************************************************************************)
\* The page selections offered to handlePageSelect: "all" or comma-separated
\* parts, each a page or a range.
Part(kind, a, b) == [kind |-> kind, a |-> a, b |-> b]
Selection(all, parts) == [all |-> all, parts |-> parts]
Selections ==
  {Selection(TRUE, <<>>),
   Selection(FALSE, <<Part("page", 0, 0)>>)}

\* The pages a part names, filtered to 1..total_pages.
PartPages(part, total_pages) ==
  IF part.kind = "range"
  THEN {i \in part.a..part.b : i > 0 /\ i <= total_pages}
  ELSE {i \in {part.a} : i > 0 /\ i <= total_pages}

\* Mutant of SelectedPageSet: every page from the first named to the last.
SelectedPageSetContiguous(selection, total_pages) ==
  LET named == IF selection.all THEN 1..total_pages
               ELSE UNION {PartPages(selection.parts[k], total_pages) :
                             k \in DOMAIN selection.parts}
  IN {i \in 1..total_pages : \E a \in named : \E b \in named : a <= i /\ i <= b}

\* selected_pages before the sort: the pages of all parts.
SelectedPageSet(selection, total_pages) ==
  IF selection.all THEN 1..total_pages
  ELSE UNION {PartPages(selection.parts[k], total_pages) : k \in DOMAIN selection.parts}

\* [...new Set(selected_pages)].sort((a, b) => a - b)
RECURSIVE SortedSeq(_)
SortedSeq(S) ==
  IF S = {} THEN <<>>
  ELSE LET m == CHOOSE x \in S : \A y \in S : x <= y
       IN <<m>> \o SortedSeq(S \ {m})

\* handlePDFSelect, at the arrival of the /pdf-info response.
\* The file input of PDFViewer is there only while no document is loaded.
\* limit bounds the documents uploaded.
PDFSelect(limit) ==
  /\ Len(processingState.processedPages) = 0
  /\ pdfInfo = 0
  /\ nUpload < limit
  /\ \/ /\ pdfInfo' = nUpload + 1
        /\ nUpload' = nUpload + 1
        /\ processingState' = InitialProcessingState
     \/ UNCHANGED <<pdfInfo, nUpload, processingState>>
  /\ NoHist
  /\ UNCHANGED <<nextUuid, batches, detects, nDetect, nBatch, nMove, gestureVars, viewVars,
                 transformVars>>

handlePDFSelect == PDFSelect(MaxUpload)
handlePDFSelectAgain == PDFSelect(MaxReupload)

\* The selections of the gesture-level specification: one page, or none.
OnePageSelections ==
  {Selection(FALSE, <<Part("page", 1, 1)>>), Selection(FALSE, <<Part("page", 0, 0)>>)}

\* handlePageSelect up to its first await.
PageSelect(selections, total_pages) ==
  /\ Len(processingState.processedPages) = 0
  /\ pdfInfo # 0
  /\ ~processingState.isProcessing
  /\ \E selection \in selections :
       LET selected_pages == SortedSeq(SelectedPageSet(selection, total_pages))
       IN IF Len(selected_pages) = 0
          THEN processingState' = [processingState EXCEPT !.isProcessing = FALSE]
          ELSE processingState' =
                 [processingState EXCEPT !.isProcessing = FALSE,
                                         !.currentPage = selected_pages[1],
                                         !.processedPages = selected_pages,
                                         !.annotationMode = TRUE]
  /\ NoHist
  /\ UNCHANGED <<pdfInfo, nextUuid, asyncVars, nMove, gestureVars, viewVars,
                 transformVars>>

handlePageSelect == PageSelect(Selections, NumPages)
handlePageSelectOne == PageSelect(OnePageSelections, NumPages)

\* The Upload New File button: the state is reset and the viewer unmounted.
UploadNewFile ==
  /\ Len(processingState.processedPages) > 0
  /\ processingState' = InitialProcessingState
  /\ pdfInfo' = 0
  /\ FreshViewer
  /\ batches' = [b \in DOMAIN batches |->
                   [batches[b] EXCEPT !.navigated = @ \/ batches[b].pc # "done"]]
  /\ NoHist
  /\ UNCHANGED <<nextUuid, detects, nDetect, nBatch, nUpload, nMove, transformVars>>

\* handlePageChange, from a page tab.
handlePageChange ==
  /\ Len(processingState.processedPages) > 0
  /\ \E k \in DOMAIN processingState.processedPages :
       processingState' =
         [processingState EXCEPT !.currentPage = processingState.processedPages[k],
                                 !.selectedAnnotationId = NoId]
  /\ batches' = [b \in DOMAIN batches |->
                   [batches[b] EXCEPT !.navigated =
                      @ \/ (/\ batches[b].pc # "done"
                            /\ processingState'.currentPage # processingState.currentPage)]]
  /\ NoHist
  /\ UNCHANGED <<pdfInfo, nextUuid, detects, nDetect, nBatch, nUpload, nMove, gestureVars,
                 viewVars, transformVars>>

(***************************************************************************)
(* Home: annotation handlers, as updates of the latest state (prev).       *)
(***************************************************************************)
\* An annotation; doc (the document it was made for) and from (the page and
\* document of the batch whose result it holds) are history.
NoBatch == [page |-> 0, doc |-> 0, abandoned |-> FALSE]
Annotation(id, type, bbox, doc) ==
  [id |-> id, type |-> type, bbox |-> bbox, processed |-> FALSE, hasError |-> FALSE,
   doc |-> doc, from |-> NoBatch]

SetPageAnnotations(prev, anns) == [prev EXCEPT !.annotations[prev.currentPage] = anns]

\* handleCreateAnnotation: a fresh uuid, appended to the page shown.
handleCreateAnnotation(type, bbox) ==
  /\ nextUuid' = nextUuid + 1
  /\ processingState' =
       SetPageAnnotations(processingState,
         Append(PageAnnotations(processingState), Annotation(nextUuid, type, bbox, pdfInfo)))

\* handleUpdateAnnotation: the bbox of every annotation of the page with this id.
UpdatedAnnotations(anns, id, bbox) ==
  [i \in DOMAIN anns |-> IF anns[i].id = id THEN [anns[i] EXCEPT !.bbox = bbox] ELSE anns[i]]

handleUpdateAnnotation(id, bbox) ==
  processingState' =
    SetPageAnnotations(processingState, UpdatedAnnotations(PageAnnotations(processingState), id, bbox))

\* pageAnnotations.filter(annotation => annotation.id !== id)
RECURSIVE FilterOutId(_, _)
FilterOutId(anns, id) ==
  IF Len(anns) = 0 THEN <<>>
  ELSE IF Head(anns).id = id THEN FilterOutId(Tail(anns), id)
  ELSE <<Head(anns)>> \o FilterOutId(Tail(anns), id)

handleDeleteAnnotation(id) ==
  processingState' =
    SetPageAnnotations(processingState, FilterOutId(PageAnnotations(processingState), id))

handleSelectAnnotation(id) ==
  processingState' = [processingState EXCEPT !.selectedAnnotationId = id]

\* pageAnnotations.findIndex(a => a.id === id); 0 when there is none.
FindIndex(anns, id) ==
  IF \E i \in DOMAIN anns : anns[i].id = id
  THEN CHOOSE i \in DOMAIN anns : anns[i].id = id /\ \A j \in 1..(i - 1) : anns[j].id # id
  ELSE 0

(***************************************************************************)
(* Home: table auto-detection.                                             *)
(***************************************************************************)
Table(id, bbox) == [id |-> id, bbox |-> bbox]

\* response.data.tables of the /detect-tables service.
TableResponses ==
  {<<>>,
   <<Table(101, <<140, 140, 200, 200>>)>>}

RemoveAt(seq, i) == SubSeq(seq, 1, i - 1) \o SubSeq(seq, i + 1, Len(seq))

\* handleDetectTables up to the await of the request; limit bounds the calls.
DetectTables(limit) ==
  /\ Mounted
  /\ processingState.annotationMode
  /\ pdfInfo # 0
  /\ nDetect < limit
  /\ nDetect' = nDetect + 1
  /\ processingState' = [processingState EXCEPT !.isProcessing = TRUE]
  /\ detects' = Append(detects, [doc |-> pdfInfo])
  /\ NoHist
  /\ UNCHANGED <<pdfInfo, nextUuid, batches, nBatch, nUpload, nMove, gestureVars, viewVars,
                 transformVars>>

handleDetectTables == DetectTables(MaxDetect)
handleDetectTablesAgain == DetectTables(MaxRedetect)

\* The detected tables as annotations.
TableAnnotations(tables, doc) ==
  [i \in DOMAIN tables |-> Annotation(tables[i].id, "table", tables[i].bbox, doc)]

\* Mutant of DetectResponse: the detected tables replace the annotations of the page.
DetectResponseReplacing(responses) ==
  /\ \E d \in DOMAIN detects :
       /\ detects' = RemoveAt(detects, d)
       /\ \/ \E tables \in responses :
               /\ SetDetectHist(tables)
               /\ IF Len(tables) > 0
                  THEN processingState' =
                         [SetPageAnnotations(processingState,
                            TableAnnotations(tables, detects[d].doc))
                          EXCEPT !.isProcessing = FALSE]
                  ELSE processingState' = [processingState EXCEPT !.isProcessing = FALSE]
          \/ /\ processingState' = [processingState EXCEPT !.isProcessing = FALSE]
             /\ SetDetectHist(<<>>)
  /\ UNCHANGED <<pdfInfo, nextUuid, batches, nDetect, nBatch, nUpload, nMove, gestureVars,
                 viewVars, transformVars>>

\* handleDetectTables from the arrival of the response (or of the failure).
DetectResponse(responses) ==
  /\ \E d \in DOMAIN detects :
       /\ detects' = RemoveAt(detects, d)
       /\ \/ \E tables \in responses :
               /\ SetDetectHist(tables)
               /\ IF Len(tables) > 0
                  THEN processingState' =
                         [SetPageAnnotations(processingState,
                            PageAnnotations(processingState)
                              \o TableAnnotations(tables, detects[d].doc))
                          EXCEPT !.isProcessing = FALSE]
                  ELSE processingState' = [processingState EXCEPT !.isProcessing = FALSE]
          \/ /\ processingState' = [processingState EXCEPT !.isProcessing = FALSE]
             /\ SetDetectHist(<<>>)
  /\ UNCHANGED <<pdfInfo, nextUuid, batches, nDetect, nBatch, nUpload, nMove, gestureVars,
                 viewVars, transformVars>>

DetectTablesResponse == DetectResponse(TableResponses)

(***************************************************************************)
(* ImageAnnotator: the render effect's canvas size and scale factors.      *)
(***************************************************************************)
\* image.naturalWidth
naturalWidth == 400
\* image.naturalHeight
naturalHeight == 200
\* containerRect.width
containerWidth == 800
\* containerRect.height
containerHeight == 800

isRotated90or270(rotation) == rotation = 90 \/ rotation = 270

\* canvas.width and canvas.height as the render effect sets them.
CanvasSize(rotation) ==
  LET effectiveImageWidth == IF isRotated90or270(rotation) THEN naturalHeight ELSE naturalWidth
      effectiveImageHeight == IF isRotated90or270(rotation) THEN naturalWidth ELSE naturalHeight
  IN IF containerWidth * effectiveImageHeight > effectiveImageWidth * containerHeight
     THEN [width |-> (containerHeight * effectiveImageWidth) \div effectiveImageHeight,
           height |-> containerHeight]
     ELSE [width |-> containerWidth,
           height |-> (containerWidth * effectiveImageHeight) \div effectiveImageWidth]

\* canvas.dataset.xScale / yScale; without OCR results the reference size is the image's.
xScaleFactor(rotation) ==
  IF isRotated90or270(rotation)
  THEN CanvasSize(rotation).height \div naturalWidth
  ELSE CanvasSize(rotation).width \div naturalWidth

yScaleFactor(rotation) ==
  IF isRotated90or270(rotation)
  THEN CanvasSize(rotation).width \div naturalHeight
  ELSE CanvasSize(rotation).height \div naturalHeight

(***************************************************************************)
(* ImageAnnotator: hit-testing of annotations.                             *)
(***************************************************************************)
handleSize == 8
deleteButtonSize == 16
padding == 5

Hit(idx, handle) == [idx |-> idx, handle |-> handle]
NoHit == Hit(0, NoHandle)

\* The first part of findAnnotationAtPosition: delete button and corner handles
\* of the selected annotation, in scaled coordinates.
HandleAt(anns, x, y) ==
  LET rotation == getEffectiveRotation
      sel == FindIndex(anns, selectedAnnotation)
  IN IF ~(selectedAnnotation # NoId /\ processingState.annotationMode /\ sel # 0)
     THEN NoHit
     ELSE
       LET bbox == anns[sel].bbox
           scaledX == bbox[1] * xScaleFactor(rotation)
           scaledY == bbox[2] * yScaleFactor(rotation)
           scaledWidth == (bbox[3] - bbox[1]) * xScaleFactor(rotation)
           scaledHeight == (bbox[4] - bbox[2]) * yScaleFactor(rotation)
           scaledClickX == x * xScaleFactor(rotation)
           scaledClickY == y * yScaleFactor(rotation)
           deleteButtonX ==
             IF rotation = 90 \/ rotation = 180
             THEN scaledX + padding
             ELSE scaledX + scaledWidth - deleteButtonSize - padding
           deleteButtonY ==
             IF rotation = 180 \/ rotation = 270
             THEN scaledY + scaledHeight - deleteButtonSize - padding
             ELSE scaledY + padding
       IN IF /\ scaledClickX >= deleteButtonX
             /\ scaledClickX <= deleteButtonX + deleteButtonSize
             /\ scaledClickY >= deleteButtonY
             /\ scaledClickY <= deleteButtonY + deleteButtonSize
          THEN Hit(sel, "delete")
          ELSE IF /\ Abs(scaledClickX - scaledX) <= handleSize
                  /\ Abs(scaledClickY - scaledY) <= handleSize
          THEN Hit(sel, "tl")
          ELSE IF /\ Abs(scaledClickX - (scaledX + scaledWidth)) <= handleSize
                  /\ Abs(scaledClickY - scaledY) <= handleSize
          THEN Hit(sel, "tr")
          ELSE IF /\ Abs(scaledClickX - scaledX) <= handleSize
                  /\ Abs(scaledClickY - (scaledY + scaledHeight)) <= handleSize
          THEN Hit(sel, "bl")
          ELSE IF /\ Abs(scaledClickX - (scaledX + scaledWidth)) <= handleSize
                  /\ Abs(scaledClickY - (scaledY + scaledHeight)) <= handleSize
          THEN Hit(sel, "br")
          ELSE NoHit

Contains(bbox, x, y) == x >= bbox[1] /\ x <= bbox[3] /\ y >= bbox[2] /\ y <= bbox[4]

\* Mutant of MoveAt: the first annotation of the list whose box contains the point.
MoveAtFirst(anns, x, y) ==
  IF \E i \in DOMAIN anns : Contains(anns[i].bbox, x, y)
  THEN Hit(CHOOSE i \in DOMAIN anns :
             /\ Contains(anns[i].bbox, x, y)
             /\ \A j \in DOMAIN anns : j < i => ~Contains(anns[j].bbox, x, y),
           "move")
  ELSE NoHit

\* The second part: the last annotation of the list whose box contains the point.
MoveAt(anns, x, y) ==
  IF \E i \in DOMAIN anns : Contains(anns[i].bbox, x, y)
  THEN Hit(CHOOSE i \in DOMAIN anns :
             /\ Contains(anns[i].bbox, x, y)
             /\ \A j \in DOMAIN anns : j > i => ~Contains(anns[j].bbox, x, y),
           "move")
  ELSE NoHit

\* Mutant of findAnnotationAtPosition: the boxes are tried before the controls.
findAnnotationAtPositionMoveFirst(x, y) ==
  IF Len(annotations) = 0 THEN NoHit
  ELSE IF MoveAt(annotations, x, y) # NoHit THEN MoveAt(annotations, x, y)
  ELSE HandleAt(annotations, x, y)

findAnnotationAtPosition(x, y) ==
  IF Len(annotations) = 0 THEN NoHit
  ELSE IF HandleAt(annotations, x, y) # NoHit THEN HandleAt(annotations, x, y)
  ELSE MoveAt(annotations, x, y)

(***************************************************************************)
(* ImageAnnotator: pointer handlers.  pos is the result of getMousePosition.*)
(***************************************************************************)
CanvasMouseDown(points) ==
  /\ Mounted
  /\ processingState.annotationMode
  /\ \E pos \in points :
       LET result == findAnnotationAtPosition(pos[1], pos[2])
       IN /\ SetHist("handleCanvasMouseDown")
          /\ IF result # NoHit /\ result.handle = "delete"
             THEN /\ handleDeleteAnnotation(annotations[result.idx].id)
                  /\ selectedAnnotation' = NoId
                  /\ UNCHANGED <<isDrawing, startPoint, currentPoint, resizeHandle, initialBbox>>
             ELSE IF result # NoHit
             THEN /\ selectedAnnotation' = annotations[result.idx].id
                  /\ handleSelectAnnotation(annotations[result.idx].id)
                  /\ resizeHandle' = result.handle
                  /\ initialBbox' = annotations[result.idx].bbox
                  /\ isDrawing' = TRUE
                  /\ startPoint' = pos
                  /\ currentPoint' = pos
             ELSE /\ selectedAnnotation' = NoId
                  /\ resizeHandle' = NoHandle
                  /\ initialBbox' = NoBbox
                  /\ isDrawing' = TRUE
                  /\ startPoint' = pos
                  /\ currentPoint' = pos
                  /\ UNCHANGED processingState
  /\ UNCHANGED <<pdfInfo, nextUuid, asyncVars, nMove, viewVars, transformVars>>

handleCanvasMouseDown == CanvasMouseDown(DownPoints)

\* Mutant of NewBbox: the free corner follows the pointer without the clamp.
NewBboxUnclamped(handle, bbox, dx, dy) ==
  LET x1 == bbox[1]
      y1 == bbox[2]
      x2 == bbox[3]
      y2 == bbox[4]
  IN CASE handle = "move" -> <<x1 + dx, y1 + dy, x2 + dx, y2 + dy>>
       [] handle = "tl" -> <<x1 + dx, y1 + dy, x2, y2>>
       [] handle = "tr" -> <<x1, y1 + dy, x2 + dx, y2>>
       [] handle = "bl" -> <<x1 + dx, y1, x2, y2 + dy>>
       [] handle = "br" -> <<x1, y1, x2 + dx, y2 + dy>>
       [] OTHER -> bbox

\* The bbox a pointer-move gives the annotation being moved or resized.
NewBbox(handle, bbox, dx, dy) ==
  LET x1 == bbox[1]
      y1 == bbox[2]
      x2 == bbox[3]
      y2 == bbox[4]
  IN CASE handle = "move" -> <<x1 + dx, y1 + dy, x2 + dx, y2 + dy>>
       [] handle = "tl" -> <<Min(x1 + dx, x2), Min(y1 + dy, y2), x2, y2>>
       [] handle = "tr" -> <<x1, Min(y1 + dy, y2), Max(x2 + dx, x1), y2>>
       [] handle = "bl" -> <<Min(x1 + dx, x2), y1, x2, Max(y2 + dy, y1)>>
       [] handle = "br" -> <<x1, y1, Max(x2 + dx, x1), Max(y2 + dy, y1)>>
       [] OTHER -> bbox

\* Mutant of CanvasMouseMove: the delta is added to the bbox the annotation has now.
CanvasMouseMoveFromCurrent(points, limit) ==
  /\ Mounted
  /\ processingState.annotationMode
  /\ isDrawing
  /\ \E pos \in points :
       /\ SetHist("handleCanvasMouseMove")
       /\ currentPoint' = pos
       /\ IF selectedAnnotation # NoId /\ resizeHandle # NoHandle /\ initialBbox # NoBbox
          THEN /\ nMove < limit
               /\ nMove' = nMove + 1
               /\ handleUpdateAnnotation(selectedAnnotation,
                    NewBbox(resizeHandle,
                            annotations[FindIndex(annotations, selectedAnnotation)].bbox,
                            pos[1] - startPoint[1], pos[2] - startPoint[2]))
          ELSE UNCHANGED <<processingState, nMove>>
  /\ UNCHANGED <<pdfInfo, nextUuid, asyncVars, isDrawing, startPoint, selectedAnnotation,
                 resizeHandle, initialBbox, viewVars, transformVars>>

\* handleCanvasMouseMove in annotation mode while a gesture is in progress
\* (outside a gesture it only sets the cursor).  limit bounds the pointer-moves
\* that update an annotation.
CanvasMouseMove(points, limit) ==
  /\ Mounted
  /\ processingState.annotationMode
  /\ isDrawing
  /\ \E pos \in points :
       /\ SetHist("handleCanvasMouseMove")
       /\ currentPoint' = pos
       /\ IF selectedAnnotation # NoId /\ resizeHandle # NoHandle /\ initialBbox # NoBbox
          THEN /\ nMove < limit
               /\ nMove' = nMove + 1
               /\ handleUpdateAnnotation(selectedAnnotation,
                    NewBbox(resizeHandle, initialBbox,
                            pos[1] - startPoint[1], pos[2] - startPoint[2]))
          ELSE UNCHANGED <<processingState, nMove>>
  /\ UNCHANGED <<pdfInfo, nextUuid, asyncVars, isDrawing, startPoint, selectedAnnotation,
                 resizeHandle, initialBbox, viewVars, transformVars>>

handleCanvasMouseMove == CanvasMouseMove(MovePoints, MaxMove)

\* Mutant of BigEnough: a box of exactly the minimum size is accepted.
BigEnoughInclusive(width, height) == width >= 10 /\ height >= 10

\* The minimum-size test of handleCanvasMouseUp.
BigEnough(width, height) == width > 10 /\ height > 10

\* Mutant of DragBox: the drag points are stored in the order they were made.
DragBoxUnordered(start, pos) ==
  <<start[1], start[2], pos[1], pos[2]>>

\* The box of a drawing gesture: min/max of the two drag points.
DragBox(start, pos) ==
  <<Min(start[1], pos[1]), Min(start[2], pos[2]), Max(start[1], pos[1]), Max(start[2], pos[2])>>

\* handleCanvasMouseUp; limit bounds the annotations created.
CanvasMouseUp(points, limit) ==
  /\ Mounted
  /\ processingState.annotationMode
  /\ isDrawing
  /\ startPoint # NoPoint
  /\ \E pos \in points :
       LET width == Abs(pos[1] - startPoint[1])
           height == Abs(pos[2] - startPoint[2])
       IN IF resizeHandle # NoHandle /\ selectedAnnotation # NoId
          THEN /\ SetGestureHist("handleCanvasMouseUp", NoPoint)
               /\ resizeHandle' = NoHandle
               /\ initialBbox' = NoBbox
               /\ UNCHANGED <<processingState, nextUuid>>
          ELSE /\ SetGestureHist("handleCanvasMouseUp", <<width, height>>)
               /\ UNCHANGED <<resizeHandle, initialBbox>>
               /\ IF BigEnough(width, height)
                  THEN /\ nextUuid <= limit
                       /\ handleCreateAnnotation(processingState.currentAnnotationType,
                                                 DragBox(startPoint, pos))
                  ELSE UNCHANGED <<processingState, nextUuid>>
  /\ isDrawing' = FALSE
  /\ startPoint' = NoPoint
  /\ currentPoint' = NoPoint
  /\ UNCHANGED <<pdfInfo, asyncVars, nMove, selectedAnnotation, viewVars,
                 transformVars>>

handleCanvasMouseUp == CanvasMouseUp(UpPoints, MaxUuid)

\* Mutant of handleCanvasMouseLeave: the leave also clears the selection.
handleCanvasMouseLeaveDeselecting ==
  /\ Mounted
  /\ SetGestureHist("handleCanvasMouseLeave", NoPoint)
  /\ IF isDrawing
     THEN /\ isDrawing' = FALSE
          /\ startPoint' = NoPoint
          /\ currentPoint' = NoPoint
          /\ resizeHandle' = NoHandle
          /\ selectedAnnotation' = NoId
     ELSE UNCHANGED <<isDrawing, startPoint, currentPoint, resizeHandle, selectedAnnotation>>
  /\ UNCHANGED <<homeVars, asyncVars, nMove, initialBbox, viewVars,
                 transformVars>>

handleCanvasMouseLeave ==
  /\ Mounted
  /\ SetGestureHist("handleCanvasMouseLeave", NoPoint)
  /\ IF isDrawing
     THEN /\ isDrawing' = FALSE
          /\ startPoint' = NoPoint
          /\ currentPoint' = NoPoint
          /\ resizeHandle' = NoHandle
     ELSE UNCHANGED <<isDrawing, startPoint, currentPoint, resizeHandle>>
  /\ UNCHANGED <<homeVars, asyncVars, nMove, selectedAnnotation, initialBbox, viewVars,
                 transformVars>>

(***************************************************************************)
(* The gesture-level specification: the viewer on top of Home.             *)
(***************************************************************************)
Init ==
  /\ pdfInfo = 0
  /\ processingState = InitialProcessingState
  /\ nextUuid = 1
  /\ batches = <<>>
  /\ detects = <<>>
  /\ nDetect = 0
  /\ nBatch = 0
  /\ nMove = 0
  /\ nUpload = 0
  /\ zoomLevel = <<1, 1>>
  /\ panOffset = <<0, 0>>
  /\ localRotation = 0
  /\ nZoom = 0
  /\ isDrawing = FALSE
  /\ startPoint = NoPoint
  /\ currentPoint = NoPoint
  /\ selectedAnnotation = NoId
  /\ resizeHandle = NoHandle
  /\ initialBbox = NoBbox
  /\ lastOp = "init"
  /\ lastSize = NoPoint
  /\ lastGesture = "none"
  /\ lastTables = <<>>
  /\ tIn = <<0, 0>>
  /\ tOut = <<0, 0>>
  /\ textLines = <<>>
  /\ hoveredBox = 0

Next ==
  \/ handlePDFSelect
  \/ handlePageSelectOne
  \/ handleDetectTables
  \/ DetectTablesResponse
  \/ handleCanvasMouseDown
  \/ handleCanvasMouseMove
  \/ handleCanvasMouseUp
  \/ handleCanvasMouseLeave

Spec == Init /\ [][Next]_vars

(***************************************************************************)
(* The selection-level specification: the gestures, with table detection   *)
(* run more than once.                                                     *)
(***************************************************************************)
NextSelect ==
  \/ handlePDFSelect
  \/ handlePageSelectOne
  \/ handleDetectTablesAgain
  \/ DetectTablesResponse
  \/ handleCanvasMouseDown
  \/ handleCanvasMouseMove
  \/ handleCanvasMouseUp
  \/ handleCanvasMouseLeave

SpecSelect == Init /\ [][NextSelect]_vars

(***************************************************************************)
(* Home: batch processing of the pending annotations of the page shown.    *)
(* A batch is one invocation of handleProcessAnnotations; page, doc and    *)
(* anns are what its closure captured, idx is the loop position, pc the    *)
(* await it is suspended at.  outcomes and navigated are history.          *)
(***************************************************************************)
\* currentPageAnnotations.filter(annotation => !annotation.processed)
RECURSIVE Unprocessed(_)
Unprocessed(anns) ==
  IF Len(anns) = 0 THEN <<>>
  ELSE IF ~Head(anns).processed THEN <<Head(anns)>> \o Unprocessed(Tail(anns))
  ELSE Unprocessed(Tail(anns))

\* The Process Annotations button, up to the first await.  With nothing
\* pending the handler returns after a toast.  limit bounds the invocations.
ProcessAnnotations(limit) ==
  /\ Mounted
  /\ processingState.annotationMode
  /\ Len(annotations) > 0
  /\ Len(Unprocessed(annotations)) > 0
  /\ nBatch < limit
  /\ nBatch' = nBatch + 1
  /\ processingState' = [processingState EXCEPT !.isProcessing = TRUE]
  /\ batches' = Append(batches,
       [page |-> processingState.currentPage, doc |-> pdfInfo,
        anns |-> Unprocessed(annotations), idx |-> 1, pc |-> "crop",
        pageRotations |-> processingState.pageRotations,
        outcomes |-> <<>>, navigated |-> FALSE, requests |-> <<>>, deleted |-> {}])
  /\ NoHist
  /\ UNCHANGED <<pdfInfo, nextUuid, detects, nDetect, nUpload, nMove, gestureVars, viewVars,
                 transformVars>>

handleProcessAnnotations == ProcessAnnotations(MaxBatch)
handleProcessAnnotationsAgain == ProcessAnnotations(MaxPress)

\* Mutant of StoreResult: a failed call leaves the annotation as it is.
StoreResultOnSuccess(prev, id, hasError, from) ==
  LET pageAnnotations == PageAnnotations(prev)
      index == FindIndex(pageAnnotations, id)
  IN IF index # 0 /\ ~hasError
     THEN SetPageAnnotations(prev,
            [pageAnnotations EXCEPT ![index] =
               [@ EXCEPT !.processed = TRUE, !.hasError = hasError, !.from = from]])
     ELSE prev

\* The three setProcessingState updates that store a result: the annotation
\* with this id on the page now shown, if there is one.
StoreResult(prev, id, hasError, from) ==
  LET pageAnnotations == PageAnnotations(prev)
      index == FindIndex(pageAnnotations, id)
  IN IF index # 0
     THEN SetPageAnnotations(prev,
            [pageAnnotations EXCEPT ![index] =
               [@ EXCEPT !.processed = TRUE, !.hasError = hasError, !.from = from]])
     ELSE prev

\* Mutant of FinishIteration: a failed call ends the batch.
FinishIterationAborting(b, outcome) ==
  LET batch == batches[b]
      last == batch.idx = Len(batch.anns) \/ outcome # "ok"
      stored == StoreResult(processingState, batch.anns[batch.idx].id, outcome # "ok",
                            [page |-> batch.page, doc |-> batch.doc,
                             abandoned |-> batch.navigated])
  IN /\ processingState' = IF last THEN [stored EXCEPT !.isProcessing = FALSE] ELSE stored
     /\ batches' = [batches EXCEPT ![b] =
          [@ EXCEPT !.outcomes = Append(@, outcome),
                    !.idx = IF last THEN batch.idx ELSE batch.idx + 1,
                    !.pc = IF last THEN "done" ELSE "crop"]]

\* The end of one loop iteration: the result is stored, and after the last
\* annotation isProcessing is set to false.
FinishIteration(b, outcome) ==
  LET batch == batches[b]
      last == batch.idx = Len(batch.anns)
      stored == StoreResult(processingState, batch.anns[batch.idx].id, outcome # "ok",
                            [page |-> batch.page, doc |-> batch.doc,
                             abandoned |-> batch.navigated])
  IN /\ processingState' = IF last THEN [stored EXCEPT !.isProcessing = FALSE] ELSE stored
     /\ batches' = [batches EXCEPT ![b] =
          [@ EXCEPT !.outcomes = Append(@, outcome),
                    !.idx = IF last THEN batch.idx ELSE batch.idx + 1,
                    !.pc = IF last THEN "done" ELSE "crop"]]

\* The request of the annotation a batch is at, with the rotation the crop was
\* made for; both rotations are read from the processingState of the closure.
\* shown, the rotation the page has when the request is sent, is history.
Request(batch) ==
  [id |-> batch.anns[batch.idx].id,
   rotation |-> batch.pageRotations[batch.page],
   currentRotation |-> batch.pageRotations[batch.page],
   shown |-> processingState.pageRotations[batch.page]]

\* Mutant of BatchCrop: the rejection of getCroppedImageData is caught by
\* nothing, so the batch ends where it is and isProcessing is never reset.
BatchCropUncaught ==
  /\ \E b \in DOMAIN batches :
       /\ batches[b].pc = "crop"
       /\ \/ /\ batches' = [batches EXCEPT ![b].pc = "post",
                                             ![b].requests = Append(@, Request(batches[b]))]
             /\ UNCHANGED processingState
          \/ /\ batches' = [batches EXCEPT ![b].pc = "done",
                                             ![b].outcomes = Append(@, "reject")]
             /\ UNCHANGED processingState
  /\ NoHist
  /\ UNCHANGED <<pdfInfo, nextUuid, detects, nDetect, nBatch, nUpload, nMove, gestureVars,
                 viewVars, transformVars>>

\* getCroppedImageData settles: the request is sent, or the rejection is
\* caught by the per-annotation catch.
BatchCrop ==
  /\ \E b \in DOMAIN batches :
       /\ batches[b].pc = "crop"
       /\ \/ /\ batches' = [batches EXCEPT ![b].pc = "post",
                                             ![b].requests = Append(@, Request(batches[b]))]
             /\ UNCHANGED processingState
          \/ FinishIteration(b, "reject")
  /\ NoHist
  /\ UNCHANGED <<pdfInfo, nextUuid, detects, nDetect, nBatch, nUpload, nMove, gestureVars,
                 viewVars, transformVars>>

\* The outcomes of the /process-annotation call: a result, a result that
\* carries an error (stored as processed, with hasError), or a failure
\* (network error, timeout, error status).
Outcomes == {"ok", "flagged", "throw"}

BatchResponse ==
  /\ \E b \in DOMAIN batches :
       /\ batches[b].pc = "post"
       /\ \E outcome \in Outcomes : FinishIteration(b, outcome)
  /\ NoHist
  /\ UNCHANGED <<pdfInfo, nextUuid, detects, nDetect, nBatch, nUpload, nMove, gestureVars,
                 viewVars, transformVars>>

\* onCreateAnnotation as the viewer calls it at the end of a drawing gesture.
DrawAnnotation(limit) ==
  /\ Mounted
  /\ processingState.annotationMode
  /\ nextUuid <= limit
  /\ \E bbox \in DrawnBoxes :
       handleCreateAnnotation(processingState.currentAnnotationType, bbox)
  /\ NoHist
  /\ UNCHANGED <<pdfInfo, asyncVars, nMove, gestureVars, viewVars, transformVars>>

\* onDeleteAnnotation as the viewer calls it from the delete control.  deleted,
\* the ids a running batch of this page still has to handle and that were
\* deleted meanwhile, is history.
DeleteAnnotation ==
  /\ Mounted
  /\ processingState.annotationMode
  /\ \E i \in DOMAIN annotations :
       /\ handleDeleteAnnotation(annotations[i].id)
       /\ batches' =
            [b \in DOMAIN batches |->
               IF /\ batches[b].pc # "done"
                  /\ batches[b].page = processingState.currentPage
                  /\ batches[b].doc = pdfInfo
                  /\ \E k \in batches[b].idx..Len(batches[b].anns) :
                       batches[b].anns[k].id = annotations[i].id
               THEN [batches[b] EXCEPT !.deleted = @ \cup {annotations[i].id}]
               ELSE batches[b]]
  /\ NoHist
  /\ UNCHANGED <<pdfInfo, nextUuid, detects, nDetect, nBatch, nUpload, nMove, gestureVars,
                 viewVars, transformVars>>

CreateAnnotation == DrawAnnotation(MaxDrawn)
CreateAnnotationOnce == DrawAnnotation(MaxUuid)

(***************************************************************************)
(* The batch-level specification: Home with its handlers as operations.    *)
(***************************************************************************)
NextBatch ==
  \/ handlePDFSelect
  \/ handlePageSelect
  \/ CreateAnnotation
  \/ handleProcessAnnotations
  \/ BatchCrop
  \/ BatchResponse

SpecBatch == Init /\ [][NextBatch]_vars

(***************************************************************************)
(* The navigation-level specification: batches over auto-detected tables,  *)
(* with page changes and the return to the upload screen.                  *)
(***************************************************************************)
NextNav ==
  \/ handlePDFSelectAgain
  \/ handlePageSelect
  \/ handlePageChange
  \/ UploadNewFile
  \/ DeleteAnnotation
  \/ handleDetectTablesAgain
  \/ DetectTablesResponse
  \/ handleProcessAnnotationsAgain
  \/ BatchCrop
  \/ BatchResponse

SpecNav == Init /\ [][NextNav]_vars

(***************************************************************************)
(* ImageAnnotator: the coordinate transforms.  Zoom makes the values       *)
(* fractions; a rational is a pair <<numerator, denominator>> with a       *)
(* positive denominator.                                                   *)
(***************************************************************************)
R(n) == <<n, 1>>
RAdd(a, b) == <<a[1] * b[2] + b[1] * a[2], a[2] * b[2]>>
RSub(a, b) == <<a[1] * b[2] - b[1] * a[2], a[2] * b[2]>>
RMul(a, b) == <<a[1] * b[1], a[2] * b[2]>>
RDiv(a, b) == IF b[1] > 0 THEN <<a[1] * b[2], a[2] * b[1]>> ELSE <<(0 - a[1]) * b[2], a[2] * (0 - b[1])>>
RLeq(a, b) == a[1] * b[2] <= b[1] * a[2]
RAbs(a) == <<Abs(a[1]), a[2]>>

\* Where the render effect draws a bbox on the canvas:
\* <<scaledX, scaledY, scaledWidth, scaledHeight>>.
ScaledBox(bbox, rotation) ==
  LET x == bbox[1]
      y == bbox[2]
      x2 == bbox[3]
      y2 == bbox[4]
      canvas == CanvasSize(rotation)
      xs == xScaleFactor(rotation)
      ys == yScaleFactor(rotation)
  IN CASE rotation = 90 ->
            <<canvas.width - (y + (y2 - y)) * ys, x * xs, (y2 - y) * ys, (x2 - x) * xs>>
       [] rotation = 180 ->
            <<canvas.width - (x + (x2 - x)) * xs, canvas.height - (y + (y2 - y)) * ys,
              (x2 - x) * xs, (y2 - y) * ys>>
       [] rotation = 270 ->
            <<y * ys, canvas.height - (x + (x2 - x)) * xs, (y2 - y) * ys, (x2 - x) * xs>>
       [] OTHER ->
            <<x * xs, y * ys, (x2 - x) * xs, (y2 - y) * ys>>

\* The forward transform of an image-space point: where the render effect
\* draws the box that starts and ends at p.
toCanvas(p) ==
  LET box == ScaledBox(<<p[1], p[2], p[1], p[2]>>, getEffectiveRotation)
  IN <<box[1], box[2]>>

\* The transform-container applies translate(panOffset) scale(zoomLevel) about
\* its centre; the canvas is laid out at (0, 0) with its own size.
TransformOrigin ==
  LET canvas == CanvasSize(getEffectiveRotation)
  IN <<canvas.width \div 2, canvas.height \div 2>>

\* The viewport position of a point of the canvas.
ClientPoint(c) ==
  <<RAdd(R(TransformOrigin[1] + panOffset[1]), RMul(zoomLevel, R(c[1] - TransformOrigin[1]))),
    RAdd(R(TransformOrigin[2] + panOffset[2]), RMul(zoomLevel, R(c[2] - TransformOrigin[2])))>>

\* canvas.getBoundingClientRect(): the box of the canvas as it is shown.
BoundingClientRect ==
  LET canvas == CanvasSize(getEffectiveRotation)
  IN [left |-> ClientPoint(<<0, 0>>)[1],
      top |-> ClientPoint(<<0, 0>>)[2],
      width |-> RMul(zoomLevel, R(canvas.width)),
      height |-> RMul(zoomLevel, R(canvas.height))]

\* getMousePosition of a pointer event at (clientX, clientY).
getMousePosition(clientX, clientY) ==
  LET rotation == getEffectiveRotation
      canvas == CanvasSize(rotation)
      rect == BoundingClientRect
      browserX == RSub(clientX, rect.left)
      browserY == RSub(clientY, rect.top)
      adjustedX == RDiv(RSub(browserX, R(panOffset[1])), zoomLevel)
      adjustedY == RDiv(RSub(browserY, R(panOffset[2])), zoomLevel)
      canvasX == RMul(adjustedX, RDiv(R(canvas.width), rect.width))
      canvasY == RMul(adjustedY, RDiv(R(canvas.height), rect.height))
      imageX == CASE rotation = 90 -> canvasY
                  [] rotation = 180 -> RSub(R(canvas.width), canvasX)
                  [] rotation = 270 -> RSub(R(canvas.height), canvasY)
                  [] OTHER -> canvasX
      imageY == CASE rotation = 90 -> RSub(R(canvas.width), canvasX)
                  [] rotation = 180 -> RSub(R(canvas.height), canvasY)
                  [] rotation = 270 -> canvasX
                  [] OTHER -> canvasY
  IN <<RDiv(imageX, R(xScaleFactor(rotation))), RDiv(imageY, R(yScaleFactor(rotation)))>>

(***************************************************************************)
(* The transform-level specification: a viewer showing page 1 at any       *)
(* rotation, zoom and pan; a box is drawn at a point and the pointer is    *)
(* put where it is shown.                                                  *)
(***************************************************************************)
Rotations == {0, 90, 180, 270}
Zooms == {<<1, 2>>, <<1, 1>>, <<3, 2>>, <<2, 1>>, <<5, 1>>}
Pans == {<<0, 0>>, <<40, -20>>}
ImagePoints == {<<0, 0>>, <<100, 50>>, <<37, 113>>, <<400, 200>>}

\* Home after a document was uploaded and page 1 selected.
ShownPage(rotation, anns) ==
  [InitialProcessingState EXCEPT !.currentPage = 1,
                                 !.processedPages = <<1>>,
                                 !.annotationMode = TRUE,
                                 !.pageRotations[1] = rotation,
                                 !.annotations[1] = anns]

InitTransform ==
  /\ pdfInfo = 1
  /\ nUpload = 1
  /\ \E rotation \in Rotations : processingState = ShownPage(rotation, <<>>)
  /\ nextUuid = 1
  /\ batches = <<>>
  /\ detects = <<>>
  /\ nDetect = 0
  /\ nBatch = 0
  /\ nMove = 0
  /\ zoomLevel \in Zooms
  /\ panOffset \in Pans
  /\ localRotation = 0
  /\ nZoom = 0
  /\ isDrawing = FALSE
  /\ startPoint = NoPoint
  /\ currentPoint = NoPoint
  /\ selectedAnnotation = NoId
  /\ resizeHandle = NoHandle
  /\ initialBbox = NoBbox
  /\ lastOp = "init"
  /\ lastSize = NoPoint
  /\ lastGesture = "none"
  /\ lastTables = <<>>
  /\ tIn \in ImagePoints
  /\ tOut = NoPoint
  /\ textLines = <<>>
  /\ hoveredBox = 0

\* The pointer is put on the drawn position of tIn and read back.
PointerRoundTrip ==
  /\ Mounted
  /\ tOut = NoPoint
  /\ LET e == ClientPoint(toCanvas(tIn))
     IN tOut' = getMousePosition(e[1], e[2])
  /\ SetHist("getMousePosition")
  /\ UNCHANGED <<homeVars, asyncVars, nMove, gestureVars, viewVars, tIn, textLines, hoveredBox>>

NextTransform == PointerRoundTrip

SpecTransform == InitTransform /\ [][NextTransform]_vars

(***************************************************************************)
(* The resize-level specification: a corner handle of the selected         *)
(* annotation has been pressed, and the pointer moves anywhere.            *)
(***************************************************************************)
Corners == {"tl", "tr", "bl", "br"}
ResizeBoxes == {<<0, 0, 100, 100>>, <<40, 20, 60, 90>>}
ResizePoints == {<<150, 150>>, <<-30, -30>>, <<50, 50>>, <<150, 30>>, <<10, 120>>}

\* The corner of a bbox a handle sits on; a move starts inside the box.
CornerPoint(handle, bbox) ==
  CASE handle = "move" -> <<(bbox[1] + bbox[3]) \div 2, (bbox[2] + bbox[4]) \div 2>>
    [] handle = "tl" -> <<bbox[1], bbox[2]>>
    [] handle = "tr" -> <<bbox[3], bbox[2]>>
    [] handle = "bl" -> <<bbox[1], bbox[4]>>
    [] OTHER -> <<bbox[3], bbox[4]>>

InitResize ==
  /\ pdfInfo = 1
  /\ nUpload = 1
  /\ nextUuid = 2
  /\ batches = <<>>
  /\ detects = <<>>
  /\ nDetect = 0
  /\ nBatch = 0
  /\ nMove = 0
  /\ zoomLevel = <<1, 1>>
  /\ panOffset = <<0, 0>>
  /\ localRotation = 0
  /\ nZoom = 0
  /\ isDrawing = TRUE
  /\ selectedAnnotation = 1
  /\ resizeHandle \in Corners \cup {"move"}
  /\ initialBbox \in ResizeBoxes
  /\ processingState =
       [ShownPage(0, <<Annotation(1, "text", initialBbox, 1)>>) EXCEPT !.selectedAnnotationId = 1]
  /\ startPoint = CornerPoint(resizeHandle, initialBbox)
  /\ currentPoint = startPoint
  /\ lastOp = "handleCanvasMouseDown"
  /\ lastSize = NoPoint
  /\ lastGesture = "none"
  /\ lastTables = <<>>
  /\ tIn = <<0, 0>>
  /\ tOut = <<0, 0>>
  /\ textLines = <<>>
  /\ hoveredBox = 0

handleCanvasMouseMoveAnywhere == CanvasMouseMove(ResizePoints, MaxDrag)

NextResize ==
  \/ handleCanvasMouseMoveAnywhere
  \/ handleCanvasMouseUp
  \/ handleCanvasMouseLeave

SpecResize == InitResize /\ [][NextResize]_vars

(***************************************************************************)
(* The hit-test-level specification: a page with overlapping annotations,  *)
(* any of them selected, at any rotation; the pointer is pressed at a      *)
(* point, among them the points where the controls of the selected         *)
(* annotation are drawn, and a later press comes where the pointer then    *)
(* is.                                                                     *)
(***************************************************************************)
HitLayouts ==
  {<<Annotation(1, "text", <<0, 0, 100, 100>>, 1)>>,
   <<Annotation(1, "text", <<0, 0, 100, 100>>, 1),
     Annotation(2, "table", <<50, 50, 150, 150>>, 1)>>,
   <<Annotation(1, "text", <<0, 0, 100, 100>>, 1),
     Annotation(2, "table", <<50, 50, 150, 150>>, 1),
     Annotation(3, "diagram", <<90, 0, 190, 60>>, 1)>>}
HitPoints ==
  {<<0, 0>>, <<100, 0>>, <<0, 100>>, <<100, 100>>, <<95, 10>>, <<50, 50>>, <<52, 52>>,
   <<95, 55>>, <<120, 120>>, <<180, 180>>}
HitMovePoints == {<<95, 10>>}

Controls == Corners \cup {"delete"}

\* Where the render effect draws the controls of the selected annotation: the
\* centre of each corner handle, and a point inside the delete button (one
\* pixel off its centre, so that it falls on a whole image pixel).
DrawnControls(bbox, rotation) ==
  LET box == ScaledBox(bbox, rotation)
      scaledX == box[1]
      scaledY == box[2]
      scaledWidth == box[3]
      scaledHeight == box[4]
      deleteButtonX ==
        IF rotation = 90 \/ rotation = 180
        THEN scaledX + padding
        ELSE scaledX + scaledWidth - deleteButtonSize - padding
      deleteButtonY ==
        IF rotation = 180 \/ rotation = 270
        THEN scaledY + scaledHeight - deleteButtonSize - padding
        ELSE scaledY + padding
  IN [control \in Controls |->
        CASE control = "tl" -> <<scaledX, scaledY>>
          [] control = "tr" -> <<scaledX + scaledWidth, scaledY>>
          [] control = "bl" -> <<scaledX, scaledY + scaledHeight>>
          [] control = "br" -> <<scaledX + scaledWidth, scaledY + scaledHeight>>
          [] OTHER -> <<deleteButtonX + deleteButtonSize \div 2 - 1,
                        deleteButtonY + deleteButtonSize \div 2 - 1>>]

\* The position getMousePosition gives a pointer event on a drawn control of
\* the selected annotation, in whole image pixels.
PointerOn(control) ==
  LET c == DrawnControls(annotations[FindIndex(annotations, selectedAnnotation)].bbox,
                         getEffectiveRotation)[control]
      pos == getMousePosition(ClientPoint(c)[1], ClientPoint(c)[2])
  IN <<pos[1][1] \div pos[1][2], pos[2][1] \div pos[2][2]>>

InitHit ==
  /\ pdfInfo = 1
  /\ nUpload = 1
  /\ \E rotation \in Rotations : \E layout \in HitLayouts :
       /\ selectedAnnotation \in 0..Len(layout)
       /\ processingState =
            [ShownPage(rotation, layout) EXCEPT !.selectedAnnotationId = selectedAnnotation,
                                                !.processedPages = <<1, 2>>]
  /\ nextUuid = 4
  /\ batches = <<>>
  /\ detects = <<>>
  /\ nDetect = 0
  /\ nBatch = 0
  /\ nMove = 0
  /\ zoomLevel = <<1, 1>>
  /\ panOffset = <<0, 0>>
  /\ localRotation = 0
  /\ nZoom = 0
  /\ isDrawing = FALSE
  /\ startPoint = NoPoint
  /\ currentPoint = NoPoint
  /\ resizeHandle = NoHandle
  /\ initialBbox = NoBbox
  /\ lastOp = "init"
  /\ lastSize = NoPoint
  /\ lastGesture = "none"
  /\ lastTables = <<>>
  /\ tIn \in HitPoints \cup
            (IF selectedAnnotation # NoId THEN {PointerOn(c) : c \in Controls} ELSE {})
  /\ tOut = NoPoint
  /\ textLines = <<>>
  /\ hoveredBox = 0

\* A pointer-down: at tIn, or during a gesture where the pointer was last seen.
handleCanvasMouseDownAtPointer ==
  CanvasMouseDown(IF isDrawing /\ currentPoint # NoPoint THEN {currentPoint} ELSE {tIn})

handleCanvasMouseMoveOnHit == CanvasMouseMove(HitMovePoints, MaxMove)

NextHit ==
  \/ handlePageChange
  \/ handleCanvasMouseDownAtPointer
  \/ handleCanvasMouseMoveOnHit
  \/ handleCanvasMouseUp
  \/ handleCanvasMouseLeave

SpecHit == InitHit /\ [][NextHit]_vars

(***************************************************************************)
(* ImageAnnotator in view mode: hit-testing of the OCR text lines.  A text *)
(* line is known by its index in textLines; 0 stands for null.             *)
(***************************************************************************)
TextLine(x1, y1, x2, y2) == [bbox |-> <<x1, y1, x2, y2>>]

marginFixed == R(3)

\* Math.max(3, 8 / zoomLevel)
margin ==
  LET m == RDiv(R(8), zoomLevel)
  IN IF RLeq(m, R(3)) THEN R(3) ELSE m

nearbyBoxes(x, y) ==
  {i \in DOMAIN textLines :
     LET b == textLines[i].bbox
     IN /\ RLeq(RSub(R(b[1]), margin), R(x))
        /\ RLeq(R(x), RAdd(R(b[3]), margin))
        /\ RLeq(RSub(R(b[2]), margin), R(y))
        /\ RLeq(R(y), RAdd(R(b[4]), margin))}

directHits(x, y) ==
  {i \in nearbyBoxes(x, y) :
     LET b == textLines[i].bbox
     IN x >= b[1] /\ x <= b[3] /\ y >= b[2] /\ y <= b[4]}

area(i) ==
  (textLines[i].bbox[3] - textLines[i].bbox[1]) * (textLines[i].bbox[4] - textLines[i].bbox[2])

\* The squared distance from the centre of text line i to the point.
distance(i, x, y) ==
  LET b == textLines[i].bbox
      dx == RSub(RDiv(R(b[1] + b[3]), R(2)), R(x))
      dy == RSub(RDiv(R(b[2] + b[4]), R(2)), R(y))
  IN RAdd(RMul(dx, dx), RMul(dy, dy))

\* Element [0] of a stable sort by area: the earliest line of least area.
SmallestFirst(lines) ==
  CHOOSE i \in lines :
    \A j \in lines : area(i) < area(j) \/ (area(i) = area(j) /\ i <= j)

\* Element [0] of a stable sort by distance: the earliest line whose centre
\* is nearest.
ClosestFirst(lines, x, y) ==
  CHOOSE i \in lines :
    \A j \in lines :
      \/ ~RLeq(distance(j, x, y), distance(i, x, y))
      \/ (RLeq(distance(i, x, y), distance(j, x, y)) /\ i <= j)

findBoxAtPositionByCentre(x, y) ==
  IF nearbyBoxes(x, y) = {} THEN 0
  ELSE ClosestFirst(nearbyBoxes(x, y), x, y)

findBoxAtPosition(x, y) ==
  IF nearbyBoxes(x, y) = {} THEN 0
  ELSE IF directHits(x, y) # {} THEN SmallestFirst(directHits(x, y))
  ELSE ClosestFirst(nearbyBoxes(x, y), x, y)

OcrLayouts ==
  {<<TextLine(0, 0, 40, 40), TextLine(42, 30, 50, 40), TextLine(10, 10, 20, 20)>>,
   <<TextLine(100, 100, 120, 110), TextLine(124, 100, 200, 110)>>,
   <<TextLine(0, 0, 40, 40), TextLine(42, 30, 50, 40), TextLine(10, 10, 20, 20),
     TextLine(100, 100, 120, 110), TextLine(124, 100, 200, 110)>>}

OcrPoints ==
  {<<15, 15>>, <<19, 19>>, <<40, 35>>, <<41, 35>>, <<122, 105>>, <<123, 105>>,
   <<110, 113>>, <<110, 114>>, <<110, 115>>, <<110, 116>>, <<110, 126>>,
   <<110, 127>>, <<300, 300>>}

InitOcr ==
  /\ pdfInfo = 1
  /\ nUpload = 1
  /\ processingState = ShownPage(0, <<>>)
  /\ nextUuid = 1
  /\ batches = <<>>
  /\ detects = <<>>
  /\ nDetect = 0
  /\ nBatch = 0
  /\ nMove = 0
  /\ zoomLevel \in Zooms
  /\ panOffset = <<0, 0>>
  /\ localRotation = 0
  /\ nZoom = 0
  /\ isDrawing = FALSE
  /\ startPoint = NoPoint
  /\ currentPoint = NoPoint
  /\ selectedAnnotation = NoId
  /\ resizeHandle = NoHandle
  /\ initialBbox = NoBbox
  /\ lastOp = "init"
  /\ lastSize = NoPoint
  /\ lastGesture = "none"
  /\ lastTables = <<>>
  /\ tIn \in OcrPoints
  /\ tOut = NoPoint
  /\ textLines \in OcrLayouts
  /\ hoveredBox = 0

\* handleCanvasMouseMove with annotationMode off: the text line under the
\* pointer, at image point tIn, becomes the hovered one.
handleCanvasMouseMoveView ==
  /\ Mounted
  /\ hoveredBox' = findBoxAtPosition(tIn[1], tIn[2])
  /\ SetHist("findBoxAtPosition")
  /\ UNCHANGED <<homeVars, asyncVars, nMove, gestureVars, viewVars, tIn, tOut, textLines>>

NextOcr == handleCanvasMouseMoveView

SpecOcr == InitOcr /\ [][NextOcr]_vars

(***************************************************************************)
(* The detection-level specification: a drawn annotation and table         *)
(* detection, with responses of two tables, over the pages of a document.  *)
(***************************************************************************)
AnnotationTypes == {"text", "table", "diagram"}

handleAnnotationTypeChange ==
  /\ Mounted
  /\ processingState.annotationMode
  /\ \E type \in AnnotationTypes \ {processingState.currentAnnotationType} :
       processingState' = [processingState EXCEPT !.currentAnnotationType = type]
  /\ NoHist
  /\ UNCHANGED <<pdfInfo, nextUuid, asyncVars, nMove, gestureVars, viewVars, transformVars>>

\* response.data.tables with two tables.
TwoTableResponses ==
  {<<>>,
   <<Table(102, <<0, 0, 60, 60>>), Table(103, <<200, 100, 300, 180>>)>>}

DetectTablesResponseTwo == DetectResponse(TwoTableResponses)

NextDetect ==
  \/ handlePDFSelect
  \/ handlePageSelect
  \/ handlePageChange
  \/ handleAnnotationTypeChange
  \/ CreateAnnotationOnce
  \/ handleDetectTables
  \/ DetectTablesResponseTwo

SpecDetect == Init /\ [][NextDetect]_vars

(***************************************************************************)
(* The progress-level specification: batches over the drawn annotations of *)
(* a page, with page changes and deletions.  Every await of a batch        *)
(* settles: getCroppedImageData resolves or rejects on the image's load or *)
(* error event, and the request has a timeout of 120 s, so a batch that    *)
(* can take its next step eventually takes it.                             *)
(***************************************************************************)
\* The drawn annotations of page 1 when the batches start.
LiveLayouts ==
  {<<Annotation(1, "text", <<0, 0, 100, 100>>, 1)>>,
   <<Annotation(1, "text", <<0, 0, 100, 100>>, 1),
     Annotation(2, "table", <<50, 50, 150, 150>>, 1)>>}

LiveIds == {1, 2}

\* A document of two processed pages, page 1 shown with its annotations drawn.
InitLive ==
  /\ pdfInfo = 1
  /\ nUpload = 1
  /\ \E layout \in LiveLayouts :
       processingState = [ShownPage(0, layout) EXCEPT !.processedPages = <<1, 2>>]
  /\ nextUuid = 3
  /\ batches = <<>>
  /\ detects = <<>>
  /\ nDetect = 0
  /\ nBatch = 0
  /\ nMove = 0
  /\ zoomLevel = <<1, 1>>
  /\ panOffset = <<0, 0>>
  /\ localRotation = 0
  /\ nZoom = 0
  /\ isDrawing = FALSE
  /\ startPoint = NoPoint
  /\ currentPoint = NoPoint
  /\ selectedAnnotation = NoId
  /\ resizeHandle = NoHandle
  /\ initialBbox = NoBbox
  /\ lastOp = "init"
  /\ lastSize = NoPoint
  /\ lastGesture = "none"
  /\ lastTables = <<>>
  /\ tIn = <<0, 0>>
  /\ tOut = <<0, 0>>
  /\ textLines = <<>>
  /\ hoveredBox = 0

NextLive ==
  \/ handlePageChange
  \/ DeleteAnnotation
  \/ handleProcessAnnotations
  \/ BatchCrop
  \/ BatchResponse

SpecLive == InitLive /\ [][NextLive]_vars /\ WF_vars(BatchCrop) /\ WF_vars(BatchResponse)

(***************************************************************************)
(* The completion-level specification: page selection, table detection,   *)
(* deletion and batches from the upload screen on.  getCroppedImageData    *)
(* settles (load, error or its 30 s timer), the /process-annotation call   *)
(* has a 120 s timeout, and the /detect-tables call is taken to settle.    *)
(***************************************************************************)
NextDone ==
  \/ handlePDFSelect
  \/ handlePageSelectOne
  \/ handleDetectTablesAgain
  \/ DetectTablesResponse
  \/ DeleteAnnotation
  \/ handleProcessAnnotations
  \/ BatchCrop
  \/ BatchResponse

SpecDone ==
  /\ Init
  /\ [][NextDone]_vars
  /\ WF_vars(DetectTablesResponse)
  /\ WF_vars(BatchCrop)
  /\ WF_vars(BatchResponse)

(***************************************************************************)
(* The rotation-level specification: batches over a drawn annotation on    *)
(* pages the user rotates.                                                 *)
(***************************************************************************)
\* handlePageRotation, reached from the viewer's handleRotationChange.
handleRotationChange(newRotation) ==
  /\ Mounted
  /\ localRotation' = newRotation
  /\ processingState' =
       [processingState EXCEPT !.pageRotations[processingState.currentPage] = newRotation]
  /\ SetHist("handleRotationChange")
  /\ UNCHANGED <<pdfInfo, nextUuid, asyncVars, nMove, zoomLevel, panOffset, nZoom, gestureVars,
                 transformVars>>

\* Mutant of handleRotateLeft: the remainder of the JavaScript % on a negative number.
handleRotateLeftNegative == handleRotationChange(localRotation - 90)

handleRotateLeft == handleRotationChange((localRotation - 90 + 360) % 360)

handleRotateRight == handleRotationChange((localRotation + 90) % 360)

\* The reset button is disabled at 0 degrees.
handleResetRotation == localRotation # 0 /\ handleRotationChange(0)

NextRotate ==
  \/ handlePDFSelect
  \/ handlePageSelectOne
  \/ CreateAnnotationOnce
  \/ handleRotateLeft
  \/ handleRotateRight
  \/ handleResetRotation
  \/ handleProcessAnnotationsAgain
  \/ BatchCrop
  \/ BatchResponse

SpecRotate == Init /\ [][NextRotate]_vars

(***************************************************************************)
(* The view-level specification: zoom, rotation and page changes on a      *)
(* document of two processed pages.                                        *)
(***************************************************************************)
RECURSIVE Gcd(_, _)
Gcd(a, b) == IF b = 0 THEN a ELSE Gcd(b, a % b)

\* A fraction in lowest terms, so that equal numbers are equal values.
RNorm(a) == <<a[1] \div Gcd(Abs(a[1]), a[2]), a[2] \div Gcd(Abs(a[1]), a[2])>>

RMin(a, b) == IF RLeq(a, b) THEN a ELSE b
RMax(a, b) == IF RLeq(a, b) THEN b ELSE a

\* The pointer of a wheel event, as (mouseX - panOffset.x, mouseY - panOffset.y).
WheelOffsets == {<<0, 0>>, <<100, 50>>}

InitView ==
  /\ pdfInfo = 1
  /\ nUpload = 1
  /\ processingState = [ShownPage(0, <<>>) EXCEPT !.processedPages = <<1, 2>>]
  /\ nextUuid = 1
  /\ batches = <<>>
  /\ detects = <<>>
  /\ nDetect = 0
  /\ nBatch = 0
  /\ nMove = 0
  /\ zoomLevel \in Zooms
  /\ panOffset \in Pans
  /\ localRotation = 0
  /\ nZoom = 0
  /\ isDrawing = FALSE
  /\ startPoint = NoPoint
  /\ currentPoint = NoPoint
  /\ selectedAnnotation = NoId
  /\ resizeHandle = NoHandle
  /\ initialBbox = NoBbox
  /\ lastOp = "init"
  /\ lastSize = NoPoint
  /\ lastGesture = "none"
  /\ lastTables = <<>>
  /\ tIn = <<0, 0>>
  /\ tOut = <<0, 0>>
  /\ textLines = <<>>
  /\ hoveredBox = 0

\* A zoom operation that leaves the pan offset alone.
SetZoom(op, newZoom) ==
  /\ Mounted
  /\ nZoom < MaxZoom
  /\ nZoom' = nZoom + 1
  /\ zoomLevel' = RNorm(newZoom)
  /\ SetHist(op)
  /\ UNCHANGED <<homeVars, asyncVars, nMove, gestureVars, panOffset, localRotation,
                 transformVars>>

\* Mutant of handleZoomIn: no upper limit.
handleZoomInUnlimited == SetZoom("handleZoomIn", RMul(zoomLevel, <<6, 5>>))

handleZoomIn == SetZoom("handleZoomIn", RMin(RMul(zoomLevel, <<6, 5>>), R(5)))

handleZoomOut == SetZoom("handleZoomOut", RMax(RDiv(zoomLevel, <<6, 5>>), <<1, 2>>))

\* The High Quality Zoom button.
handleHighQualityZoom == SetZoom("handleHighQualityZoom", RMin(RAdd(zoomLevel, <<1, 2>>), R(5)))

\* handleWheel: the zoom changes by a tenth, within its limits, and the pan
\* offset moves so that the point under the pointer stays where it is.  The
\* pointers are those for which the new offset is a whole number of pixels.
handleWheel ==
  /\ Mounted
  /\ nZoom < MaxZoom
  /\ nZoom' = nZoom + 1
  /\ \E zoomFactor \in {<<11, 10>>, <<9, 10>>} : \E o \in WheelOffsets :
       LET newZoom == RMin(RMax(RMul(zoomLevel, zoomFactor), <<1, 2>>), R(5))
           pointXBeforeZoom == RDiv(R(o[1]), zoomLevel)
           pointYBeforeZoom == RDiv(R(o[2]), zoomLevel)
           newPanX == RNorm(RSub(R(panOffset[1]),
                        RSub(RMul(pointXBeforeZoom, newZoom), RMul(pointXBeforeZoom, zoomLevel))))
           newPanY == RNorm(RSub(R(panOffset[2]),
                        RSub(RMul(pointYBeforeZoom, newZoom), RMul(pointYBeforeZoom, zoomLevel))))
       IN /\ newPanX[2] = 1
          /\ newPanY[2] = 1
          /\ panOffset' = <<newPanX[1], newPanY[1]>>
          /\ zoomLevel' = RNorm(newZoom)
  /\ SetHist("handleWheel")
  /\ UNCHANGED <<homeVars, asyncVars, nMove, gestureVars, localRotation, transformVars>>

handleResetZoom ==
  /\ Mounted
  /\ zoomLevel' = <<1, 1>>
  /\ panOffset' = <<0, 0>>
  /\ SetHist("handleResetZoom")
  /\ UNCHANGED <<homeVars, asyncVars, nMove, gestureVars, localRotation, nZoom, transformVars>>

NextView ==
  \/ handlePageChange
  \/ handleRotateLeft
  \/ handleRotateRight
  \/ handleResetRotation
  \/ handleWheel
  \/ handleZoomIn
  \/ handleZoomOut
  \/ handleHighQualityZoom
  \/ handleResetZoom

SpecView == InitView /\ [][NextView]_vars

(***************************************************************************)
(* The drawing-level specification: drags in every direction on a page.    *)
(***************************************************************************)
DragPoints == {<<50, 80>>, <<10, 20>>, <<10, 80>>, <<50, 20>>, <<15, 25>>, <<300, 150>>}

handleCanvasMouseDownDrag == CanvasMouseDown(DragPoints)
handleCanvasMouseUpDrag == CanvasMouseUp(DragPoints, MaxDrawn)

NextDraw ==
  \/ handlePDFSelect
  \/ handlePageSelectOne
  \/ handleCanvasMouseDownDrag
  \/ handleCanvasMouseUpDrag
  \/ handleCanvasMouseLeave

SpecDraw == Init /\ [][NextDraw]_vars

(***************************************************************************)
(* The page selection: handlePageSelect applied to a selection string,     *)
(* given as its comma-separated parts, for a document of total_pages       *)
(* pages.  tIn holds the input.                                            *)
(***************************************************************************)
InitPages ==
  /\ pdfInfo = 1
  /\ nUpload = 1
  /\ processingState = InitialProcessingState
  /\ nextUuid = 1
  /\ batches = <<>>
  /\ detects = <<>>
  /\ nDetect = 0
  /\ nBatch = 0
  /\ nMove = 0
  /\ zoomLevel = <<1, 1>>
  /\ panOffset = <<0, 0>>
  /\ localRotation = 0
  /\ nZoom = 0
  /\ isDrawing = FALSE
  /\ startPoint = NoPoint
  /\ currentPoint = NoPoint
  /\ selectedAnnotation = NoId
  /\ resizeHandle = NoHandle
  /\ initialBbox = NoBbox
  /\ lastOp = "init"
  /\ lastSize = NoPoint
  /\ lastGesture = "none"
  /\ lastTables = <<>>
  /\ LET numbers == 0..(MaxPages + 1)
         parts == {Part("page", a, a) : a \in numbers}
                    \cup {Part("range", a, b) : a \in numbers, b \in numbers}
         lists == UNION {[1..n -> parts] : n \in 1..MaxParts}
     IN tIn \in [selection : {Selection(TRUE, <<>>)} \cup {Selection(FALSE, l) : l \in lists},
                 total_pages : 1..MaxPages]
  /\ tOut = <<0, 0>>
  /\ textLines = <<>>
  /\ hoveredBox = 0

handlePageSelectInput == PageSelect({tIn.selection}, tIn.total_pages)

NextPages ==
  \/ handlePageSelectInput
  \/ handlePageChange

SpecPages == InitPages /\ [][NextPages]_vars

(***************************************************************************)
(* Home: the edit of an OCR text line.  textLines are the text lines of    *)
(* results[currentPage], over all its OCR results; tIn holds the index of  *)
(* the line handed to handleTextEdit and the new text.                     *)
(***************************************************************************)
\* editedText of a line that has none.
NoText == "undefined"

OCRTextLine(text, bbox) == [text |-> text, bbox |-> bbox, editedText |-> NoText]

InitEdit ==
  /\ pdfInfo = 1
  /\ nUpload = 1
  /\ processingState = [ShownPage(0, <<>>) EXCEPT !.annotationMode = FALSE]
  /\ nextUuid = 1
  /\ batches = <<>>
  /\ detects = <<>>
  /\ nDetect = 0
  /\ nBatch = 0
  /\ nMove = 0
  /\ zoomLevel = <<1, 1>>
  /\ panOffset = <<0, 0>>
  /\ localRotation = 0
  /\ nZoom = 0
  /\ isDrawing = FALSE
  /\ startPoint = NoPoint
  /\ currentPoint = NoPoint
  /\ selectedAnnotation = NoId
  /\ resizeHandle = NoHandle
  /\ initialBbox = NoBbox
  /\ lastOp = "init"
  /\ lastSize = NoPoint
  /\ lastGesture = "none"
  /\ lastTables = <<>>
  /\ tIn = <<0, NoText>>
  /\ tOut = NoPoint
  /\ textLines \in
       {<<OCRTextLine("abc", <<0, 0, 40, 10>>), OCRTextLine("def", <<0, 12, 40, 22>>),
          OCRTextLine("abc", <<50, 0, 90, 10>>)>>,
        <<OCRTextLine("abc", <<0, 0, 40, 10>>), OCRTextLine("def", <<0, 12, 40, 22>>),
          OCRTextLine("abd", <<0, 0, 40, 10>>)>>}
  /\ hoveredBox = 0

\* handleTextEdit for a text line of the page shown: every line whose bbox
\* prints as the bbox of textLine gets the new text as its editedText.  The
\* Reset button passes the line's own text.
handleTextEdit ==
  /\ Mounted
  /\ \E k \in DOMAIN textLines :
       \E newText \in {"abc", "abd", "", textLines[k].text} :
         LET textLine == textLines[k]
         IN /\ textLines' =
                 [i \in DOMAIN textLines |->
                    IF textLines[i].bbox = textLine.bbox
                    THEN [textLines[i] EXCEPT !.editedText = newText]
                    ELSE textLines[i]]
            /\ tIn' = <<k, newText>>
  /\ SetHist("handleTextEdit")
  /\ UNCHANGED <<homeVars, asyncVars, nMove, gestureVars, viewVars, tOut, hoveredBox>>

NextEdit == handleTextEdit

SpecEdit == InitEdit /\ [][NextEdit]_vars

(***************************************************************************)
(* ImageAnnotator: the render effect for a container of any size.  tIn is  *)
(* the container's bounding rectangle (width, height) the effect read      *)
(* last, tOut what the canvas holds, its size and the scale factors of     *)
(* its dataset, with the scale state of the component (useState(1)).       *)
(***************************************************************************)
\* The canvas after the render effect, and the value it passes to setScale.
\* containerRect.width / containerRect.height is a floating-point division:
\* NaN for 0 / 0, which is greater than nothing, and Infinity for a positive
\* width over 0.
RenderPass(containerRect, rotation) ==
  LET width == containerRect[1]
      height == containerRect[2]
      effectiveImageWidth == IF isRotated90or270(rotation) THEN naturalHeight ELSE naturalWidth
      effectiveImageHeight == IF isRotated90or270(rotation) THEN naturalWidth ELSE naturalHeight
      containerIsWider == IF height = 0 THEN width > 0
                          ELSE width * effectiveImageHeight > effectiveImageWidth * height
      newHeight == IF containerIsWider THEN height
                   ELSE (width * effectiveImageHeight) \div effectiveImageWidth
      newWidth == IF containerIsWider
                  THEN (height * effectiveImageWidth) \div effectiveImageHeight
                  ELSE width
  IN [width |-> newWidth,
      height |-> newHeight,
      scale |-> RNorm(<<newWidth, effectiveImageWidth>>),
      xScale |-> RNorm(<<IF isRotated90or270(rotation) THEN newHeight ELSE newWidth,
                         naturalWidth>>),
      yScale |-> RNorm(<<IF isRotated90or270(rotation) THEN newWidth ELSE newHeight,
                         naturalHeight>>)]

\* The image has loaded: the canvas has the size of the image and no dataset
\* yet (its readers take a missing scale factor as 1).
InitRender ==
  /\ pdfInfo = 1
  /\ nUpload = 1
  /\ processingState = [ShownPage(0, <<>>) EXCEPT !.processedPages = <<1, 2>>]
  /\ nextUuid = 1
  /\ batches = <<>>
  /\ detects = <<>>
  /\ nDetect = 0
  /\ nBatch = 0
  /\ nMove = 0
  /\ zoomLevel = <<1, 1>>
  /\ panOffset = <<0, 0>>
  /\ localRotation = 0
  /\ nZoom = 0
  /\ isDrawing = FALSE
  /\ startPoint = NoPoint
  /\ currentPoint = NoPoint
  /\ selectedAnnotation = NoId
  /\ resizeHandle = NoHandle
  /\ initialBbox = NoBbox
  /\ lastOp = "init"
  /\ lastSize = NoPoint
  /\ lastGesture = "none"
  /\ lastTables = <<>>
  /\ tIn = <<containerWidth, containerHeight>>
  /\ tOut = [width |-> naturalWidth, height |-> naturalHeight, scale |-> <<1, 1>>,
             xScale |-> <<1, 1>>, yScale |-> <<1, 1>>]
  /\ textLines = <<>>
  /\ hoveredBox = 0

\* One run of the render effect, with the container as it is laid out then.
renderEffect ==
  /\ Mounted
  /\ \E containerRect \in {<<containerWidth, containerHeight>>, <<400, 100>>,
                            <<0, 0>>, <<0, 600>>, <<800, 0>>} :
       /\ tIn' = containerRect
       /\ tOut' = RenderPass(containerRect, getEffectiveRotation)
  /\ SetHist("renderEffect")
  /\ UNCHANGED <<homeVars, asyncVars, nMove, gestureVars, viewVars, textLines, hoveredBox>>

NextRender ==
  \/ renderEffect
  \/ handlePageChange
  \/ handleRotateLeft
  \/ handleRotateRight
  \/ handleResetRotation

SpecRender == InitRender /\ [][NextRender]_vars

(***************************************************************************)
(* FieldExtractionPanel: the submission of the form.  tIn is the form, its *)
(* fields and whether the onExtractFields prop is given; tOut is what      *)
(* handleSubmit did: whether it called onExtractFields, and with what.     *)
(* A name is the sequence of its characters.                               *)
(***************************************************************************)
\* The names and descriptions typed into the form.
FieldNames == {<<>>, <<"a">>, <<"a", " ">>, <<"b">>}
FieldDescriptions == {<<>>, <<"d">>, <<"e">>}

\* String.prototype.trim
RECURSIVE Trim(_)
Trim(str) ==
  IF str = <<>> THEN str
  ELSE IF Head(str) = " " THEN Trim(Tail(str))
  ELSE IF str[Len(str)] = " " THEN Trim(SubSeq(str, 1, Len(str) - 1))
  ELSE str

\* The reduce of handleSubmit: an object keyed by the trimmed names, a later
\* field overwriting an earlier one of the same key.
FieldDict(fields) ==
  [key \in {Trim(fields[i].name) : i \in DOMAIN fields} |->
     LET last == CHOOSE i \in DOMAIN fields :
                   /\ Trim(fields[i].name) = key
                   /\ \A j \in DOMAIN fields : Trim(fields[j].name) = key => j <= i
     IN [description |-> fields[last].description, type |-> fields[last].type]]

NotSubmitted == [called |-> FALSE, error |-> "none", fieldDict |-> <<>>]

\* The panel as mounted, with a form of up to MaxFields fields.
InitFields ==
  /\ pdfInfo = 0
  /\ nUpload = 0
  /\ processingState = InitialProcessingState
  /\ nextUuid = 1
  /\ batches = <<>>
  /\ detects = <<>>
  /\ nDetect = 0
  /\ nBatch = 0
  /\ nMove = 0
  /\ zoomLevel = <<1, 1>>
  /\ panOffset = <<0, 0>>
  /\ localRotation = 0
  /\ nZoom = 0
  /\ isDrawing = FALSE
  /\ startPoint = NoPoint
  /\ currentPoint = NoPoint
  /\ selectedAnnotation = NoId
  /\ resizeHandle = NoHandle
  /\ initialBbox = NoBbox
  /\ lastOp = "init"
  /\ lastSize = NoPoint
  /\ lastGesture = "none"
  /\ lastTables = <<>>
  /\ \E n \in 1..MaxFields :
       tIn \in [fields : [1..n -> [name : FieldNames, description : FieldDescriptions,
                                   type : {"text"}]],
                onExtractFields : BOOLEAN]
  /\ tOut = NotSubmitted
  /\ textLines = <<>>
  /\ hoveredBox = 0

\* handleSubmit, up to the call of onExtractFields.
handleSubmit ==
  /\ LET fields == tIn.fields
         emptyFields == {i \in DOMAIN fields :
                          fields[i].name = <<>> \/ fields[i].description = <<>>}
         fieldDict == FieldDict(fields)
         uniqueFieldNames == DOMAIN fieldDict
     IN tOut' =
          IF ~tIn.onExtractFields
          THEN NotSubmitted
          ELSE IF Cardinality(emptyFields) > 0
          THEN [NotSubmitted EXCEPT !.error = "Please fill in all field names and descriptions"]
          ELSE IF Cardinality(uniqueFieldNames) # Cardinality(DOMAIN fieldDict)
          THEN [NotSubmitted EXCEPT !.error = "Please ensure all field names are unique"]
          ELSE [called |-> TRUE, error |-> "none", fieldDict |-> fieldDict]
  /\ SetHist("handleSubmit")
  /\ UNCHANGED <<homeVars, asyncVars, nMove, gestureVars, viewVars, tIn, textLines,
                 hoveredBox>>

NextFields == handleSubmit

SpecFields == InitFields /\ [][NextFields]_vars

(***************************************************************************)
(* Properties.                                                             *)
(***************************************************************************)
\* C1, as stated: for every rotation, zoom and pan, an image-space point
\* drawn with the forward transform and read back with getMousePosition is
\* the same point, within a tolerance of 1/100 pixel.
C1_RoundTrip ==
  lastOp = "getMousePosition" =>
    /\ RLeq(RAbs(RSub(tOut[1], R(tIn[1]))), <<1, 100>>)
    /\ RLeq(RAbs(RSub(tOut[2], R(tIn[2]))), <<1, 100>>)

\* C2: a failed extraction call does not abort the batch.  When a batch is
\* done, and no other batch handled one of its annotations, every annotation
\* it captured had its call and is processed, with hasError exactly when its
\* own call failed.
C2_BatchIsolation ==
  \A b \in DOMAIN batches :
    (/\ batches[b].pc = "done"
     /\ \A c \in DOMAIN batches \ {b} :
          \A i \in DOMAIN batches[b].anns : \A j \in DOMAIN batches[c].anns :
            batches[b].anns[i].id # batches[c].anns[j].id)
    => /\ Len(batches[b].outcomes) = Len(batches[b].anns)
       /\ \A i \in DOMAIN batches[b].anns :
            LET anns == processingState.annotations[batches[b].page]
                k == FindIndex(anns, batches[b].anns[i].id)
            IN /\ k # 0
               /\ anns[k].processed
               /\ anns[k].hasError = (batches[b].outcomes[i] # "ok")

\* C2, its case: a finished batch of 3 annotations whose 2nd call threw; the
\* 1st and 3rd are processed, the 2nd is processed with an error.
C2_Witness ==
  \E b \in DOMAIN batches :
    /\ batches[b].pc = "done"
    /\ Len(batches) = 1
    /\ Len(batches[b].anns) = 3
    /\ batches[b].outcomes = <<"ok", "throw", "ok">>
    /\ LET anns == processingState.annotations[batches[b].page]
       IN /\ Len(anns) = 3
          /\ \A k \in 1..3 : anns[k].processed /\ anns[k].hasError = (k = 2)

\* C3, as stated: at every moment at most one extraction request is in flight.
C3_OneRequestInFlight ==
  Cardinality({b \in DOMAIN batches : batches[b].pc = "post"}) <= 1

\* C4, as stated: a result of a batch that arrives after the user left the
\* batch's page, or went back to the upload screen, modifies no annotation.
C4_AbandonedResultsDiscarded ==
  \A p \in PageKeys : \A i \in DOMAIN processingState.annotations[p] :
    ~processingState.annotations[p][i].from.abandoned

C6_ResizeClamps ==
  (lastOp = "handleCanvasMouseMove" /\ isDrawing /\ resizeHandle \in Corners) =>
    \A i \in DOMAIN annotations :
      annotations[i].id = selectedAnnotation =>
        LET bbox == annotations[i].bbox
        IN /\ bbox[3] - bbox[1] >= 0
           /\ bbox[4] - bbox[2] >= 0
           /\ resizeHandle = "tl" => bbox[3] = initialBbox[3] /\ bbox[4] = initialBbox[4]
           /\ resizeHandle = "tr" => bbox[1] = initialBbox[1] /\ bbox[4] = initialBbox[4]
           /\ resizeHandle = "bl" => bbox[3] = initialBbox[3] /\ bbox[2] = initialBbox[2]
           /\ resizeHandle = "br" => bbox[1] = initialBbox[1] /\ bbox[2] = initialBbox[2]
           /\ (/\ resizeHandle = "tl"
               /\ initialBbox = <<0, 0, 100, 100>>
               /\ startPoint = <<0, 0>>
               /\ currentPoint = <<150, 150>>) => bbox = <<100, 100, 100, 100>>

\* C6, its case: the top-left handle of [0,0,100,100] dragged to (150,150).
C6_Witness ==
  /\ lastOp = "handleCanvasMouseMove"
  /\ isDrawing
  /\ resizeHandle = "tl"
  /\ initialBbox = <<0, 0, 100, 100>>
  /\ startPoint = <<0, 0>>
  /\ currentPoint = <<150, 150>>
  /\ Len(annotations) = 1
  /\ annotations[1].bbox = <<100, 100, 100, 100>>

C8_LeaveCancels ==
  [][(lastOp' = "handleCanvasMouseLeave" /\ lastGesture' # "none") =>
       /\ Len(annotations') = Len(annotations)
       /\ lastGesture' # "draw" =>
            \A i \in DOMAIN annotations' :
              annotations'[i].id = selectedAnnotation' => annotations'[i].bbox = initialBbox']_vars

\* C9: a pointer-leave does not change which annotation is selected.
C9_LeaveKeepsSelection ==
  [][lastOp' = "handleCanvasMouseLeave" => selectedAnnotation' = selectedAnnotation]_vars

\* C9, its case: the pointer has left during a move or resize of the selected
\* annotation, which is still selected.
C9_Witness ==
  /\ lastOp = "handleCanvasMouseLeave"
  /\ lastGesture \in Corners \cup {"move"}
  /\ ~isDrawing
  /\ \E i \in DOMAIN annotations : annotations[i].id = selectedAnnotation

\* C10, as stated: at most one annotation of the page is drawn as selected.
C10_OneSelected ==
  Cardinality({i \in DOMAIN annotations : annotations[i].id = selectedAnnotation}) <= 1

\* C11: with an annotation selected in annotation mode, a pointer-down on its
\* delete control deletes it, and a pointer-down on one or more of its corner
\* handles (and not on the delete control) starts a resize of it from one of
\* those handles, whatever annotations contain the point.
C11_ControlsFirst ==
  [][(/\ lastOp' = "handleCanvasMouseDown"
      /\ selectedAnnotation # NoId
      /\ FindIndex(annotations, selectedAnnotation) # 0) =>
       LET pos == IF isDrawing /\ currentPoint # NoPoint THEN currentPoint ELSE tIn
           bbox == annotations[FindIndex(annotations, selectedAnnotation)].bbox
           rotation == getEffectiveRotation
           clickX == pos[1] * xScaleFactor(rotation)
           clickY == pos[2] * yScaleFactor(rotation)
           left == bbox[1] * xScaleFactor(rotation)
           top == bbox[2] * yScaleFactor(rotation)
           right == bbox[3] * xScaleFactor(rotation)
           bottom == bbox[4] * yScaleFactor(rotation)
           deleteX == IF rotation \in {90, 180} THEN left + padding
                      ELSE right - deleteButtonSize - padding
           deleteY == IF rotation \in {180, 270} THEN bottom - deleteButtonSize - padding
                      ELSE top + padding
           onDelete == /\ clickX \in deleteX..(deleteX + deleteButtonSize)
                       /\ clickY \in deleteY..(deleteY + deleteButtonSize)
           handles ==
             {h \in Corners :
                /\ Abs(clickX - (IF h \in {"tl", "bl"} THEN left ELSE right)) <= handleSize
                /\ Abs(clickY - (IF h \in {"tl", "tr"} THEN top ELSE bottom)) <= handleSize}
       IN /\ onDelete =>
               /\ annotations' = FilterOutId(annotations, selectedAnnotation)
               /\ selectedAnnotation' = NoId
          /\ (~onDelete /\ handles # {}) =>
               /\ annotations' = annotations
               /\ selectedAnnotation' = selectedAnnotation
               /\ resizeHandle' \in handles
               /\ initialBbox' = bbox
               /\ isDrawing']_vars

\* C11, its case: annotation 1 is selected, the pointer went down on its
\* top-right handle, a point the annotation above it contains, and annotation
\* 1 is being resized from that handle.
C11_Witness ==
  /\ lastOp = "handleCanvasMouseDown"
  /\ tIn = <<100, 0>>
  /\ Len(annotations) = 3
  /\ Contains(annotations[3].bbox, tIn[1], tIn[2])
  /\ getEffectiveRotation = 0
  /\ selectedAnnotation = 1
  /\ resizeHandle = "tr"
  /\ isDrawing
  /\ startPoint = tIn

\* C12: a pointer-down on no control, at a point some annotation's box
\* contains, starts a move of the last annotation of the page, among any
\* number of them, whose box contains the point.
C12_TopmostMoves ==
  [][(/\ lastOp' = "handleCanvasMouseDown"
      /\ LET pos == IF isDrawing /\ currentPoint # NoPoint THEN currentPoint ELSE tIn
         IN /\ HandleAt(annotations, pos[1], pos[2]) = NoHit
            /\ \E i \in DOMAIN annotations : Contains(annotations[i].bbox, pos[1], pos[2])) =>
       LET pos == IF isDrawing /\ currentPoint # NoPoint THEN currentPoint ELSE tIn
           over == {i \in DOMAIN annotations :
                      /\ pos[1] >= annotations[i].bbox[1] /\ pos[1] <= annotations[i].bbox[3]
                      /\ pos[2] >= annotations[i].bbox[2] /\ pos[2] <= annotations[i].bbox[4]}
           top == CHOOSE i \in over : \A j \in over : j <= i
       IN /\ annotations' = annotations
          /\ selectedAnnotation' = annotations[top].id
          /\ resizeHandle' = "move"
          /\ initialBbox' = annotations[top].bbox
          /\ isDrawing'
          /\ startPoint' = pos]_vars

\* C12, its case: the pointer went down at a point all three annotations
\* contain, and the third, the last created, is being moved.
C12_Witness ==
  /\ lastOp = "handleCanvasMouseDown"
  /\ tIn = <<95, 55>>
  /\ Len(annotations) = 3
  /\ \A i \in 1..3 : Contains(annotations[i].bbox, tIn[1], tIn[2])
  /\ selectedAnnotation = annotations[3].id
  /\ resizeHandle = "move"
  /\ initialBbox = annotations[3].bbox
  /\ isDrawing

\* C13: in OCR hit-testing a text line that contains the point wins over
\* every line that only comes near it, and of the lines that contain the
\* point one of the least area is returned.
C13_DirectSmallest ==
  lastOp = "findBoxAtPosition" =>
    LET inside == {i \in DOMAIN textLines :
                     /\ tIn[1] >= textLines[i].bbox[1] /\ tIn[1] <= textLines[i].bbox[3]
                     /\ tIn[2] >= textLines[i].bbox[2] /\ tIn[2] <= textLines[i].bbox[4]}
        size(i) == (textLines[i].bbox[3] - textLines[i].bbox[1])
                     * (textLines[i].bbox[4] - textLines[i].bbox[2])
    IN inside # {} =>
         /\ hoveredBox \in inside
         /\ \A j \in inside : size(hoveredBox) <= size(j)

\* C13, its case: the point lies in the 40x40 line and in the 10x10 line,
\* nearer to the centre of the former and within the margin of a third line,
\* and the 10x10 line was returned.
C13_Witness ==
  /\ lastOp = "findBoxAtPosition"
  /\ tIn = <<19, 19>>
  /\ Len(textLines) >= 3
  /\ textLines[1].bbox = <<0, 0, 40, 40>>
  /\ textLines[3].bbox = <<10, 10, 20, 20>>
  /\ hoveredBox = 3

\* C14: when no text line contains the point, the line returned is one
\* within max(3, 8/zoom) image pixels of the point whose centre is nearest to
\* it, and none is returned exactly when no line is within that margin.
C14_NearestWithinMargin ==
  lastOp = "findBoxAtPosition" =>
    LET n == zoomLevel[1]
        d == zoomLevel[2]
        m == Max(3 * n, 8 * d)       \* the margin times n
        inside == {i \in DOMAIN textLines :
                     /\ tIn[1] >= textLines[i].bbox[1] /\ tIn[1] <= textLines[i].bbox[3]
                     /\ tIn[2] >= textLines[i].bbox[2] /\ tIn[2] <= textLines[i].bbox[4]}
        near == {i \in DOMAIN textLines :
                   /\ (textLines[i].bbox[1] - tIn[1]) * n <= m
                   /\ (tIn[1] - textLines[i].bbox[3]) * n <= m
                   /\ (textLines[i].bbox[2] - tIn[2]) * n <= m
                   /\ (tIn[2] - textLines[i].bbox[4]) * n <= m}
        \* four times the squared distance from the centre of line i
        far(i) == (textLines[i].bbox[1] + textLines[i].bbox[3] - 2 * tIn[1])
                    * (textLines[i].bbox[1] + textLines[i].bbox[3] - 2 * tIn[1])
                  + (textLines[i].bbox[2] + textLines[i].bbox[4] - 2 * tIn[2])
                    * (textLines[i].bbox[2] + textLines[i].bbox[4] - 2 * tIn[2])
    IN inside = {} =>
         /\ (hoveredBox = 0) <=> (near = {})
         /\ hoveredBox # 0 =>
              /\ hoveredBox \in near
              /\ \A j \in near : far(hoveredBox) <= far(j)

\* C14, its case: at zoom 3/2 the point is 5 pixels below a line, inside the
\* margin of 16/3 and outside a margin of 3, and that line was returned.
C14_Witness ==
  /\ lastOp = "findBoxAtPosition"
  /\ zoomLevel = <<3, 2>>
  /\ tIn = <<110, 115>>
  /\ Len(textLines) = 2
  /\ textLines[1].bbox = <<100, 100, 120, 110>>
  /\ hoveredBox = 1

\* C15, as stated: a pointer-down on the delete control of the selected
\* annotation removes that annotation from the page and leaves the gesture
\* state idle: nothing selected, no gesture in progress.
C15_DeleteReturnsIdle ==
  [][(/\ lastOp' = "handleCanvasMouseDown"
      /\ selectedAnnotation # NoId
      /\ FindIndex(annotations, selectedAnnotation) # 0
      /\ LET pos == IF isDrawing /\ currentPoint # NoPoint THEN currentPoint ELSE tIn
             bbox == annotations[FindIndex(annotations, selectedAnnotation)].bbox
             rotation == getEffectiveRotation
             clickX == pos[1] * xScaleFactor(rotation)
             clickY == pos[2] * yScaleFactor(rotation)
             deleteX == IF rotation \in {90, 180}
                        THEN bbox[1] * xScaleFactor(rotation) + padding
                        ELSE bbox[3] * xScaleFactor(rotation) - deleteButtonSize - padding
             deleteY == IF rotation \in {180, 270}
                        THEN bbox[4] * yScaleFactor(rotation) - deleteButtonSize - padding
                        ELSE bbox[2] * yScaleFactor(rotation) + padding
         IN /\ clickX \in deleteX..(deleteX + deleteButtonSize)
            /\ clickY \in deleteY..(deleteY + deleteButtonSize)) =>
       /\ annotations' = FilterOutId(annotations, selectedAnnotation)
       /\ selectedAnnotation' = NoId
       /\ ~isDrawing'
       /\ startPoint' = NoPoint
       /\ resizeHandle' = NoHandle]_vars

C17_UniqueIds ==
  \A p \in PageKeys, q \in PageKeys :
    \A i \in DOMAIN processingState.annotations[p], j \in DOMAIN processingState.annotations[q] :
      (p # q \/ i # j) => processingState.annotations[p][i].id # processingState.annotations[q][j].id

\* C18, as stated: batch processing never sends the extraction request of an
\* annotation that is processed, with or without an error.  The annotation is
\* the only one of the annotation state with its id.
C18_TerminalNotResubmitted ==
  [][\A b \in DOMAIN batches :
       (/\ b \in DOMAIN batches'
        /\ batches[b].pc = "crop"
        /\ batches'[b].pc = "post") =>
         LET id == batches[b].anns[batches[b].idx].id
             held == {<<p, i>> \in PageKeys \X (1..(MaxRedetect + 1)) :
                        /\ i \in DOMAIN processingState.annotations[p]
                        /\ processingState.annotations[p][i].id = id}
         IN Cardinality(held) = 1 =>
              \A h \in held : ~processingState.annotations[h[1]][h[2]].processed]_vars

C20_RotationIsCurrent ==
  \A b \in DOMAIN batches :
    \A r \in DOMAIN batches[b].requests :
      /\ batches[b].requests[r].rotation = batches[b].requests[r].currentRotation
      /\ batches[b].requests[r].rotation = batches[b].requests[r].shown

\* C21, as stated: a rotate-left or rotate-right changes the stored rotation
\* of the page shown by exactly 90 degrees from its own previous value (a
\* reset sets it to 0), so that rotating another page leaves a page's rotation
\* as it was.
C21_RotationPerPage ==
  [][lastOp' = "handleRotationChange" =>
       LET page == processingState.currentPage
           old == processingState.pageRotations[page]
           new == processingState'.pageRotations[page]
       IN /\ new \in {(old + 90) % 360, (old + 270) % 360, 0}
          /\ \A other \in PageKeys \ {page} :
               processingState'.pageRotations[other] = processingState.pageRotations[other]]_vars

\* C22, as stated: right after the page shown has changed, the zoom level is
\* 1 and the pan offset is (0,0).
C22_PageChangeResetsView ==
  [][processingState'.currentPage # processingState.currentPage =>
       zoomLevel' = <<1, 1>> /\ panOffset' = <<0, 0>>]_vars

\* C26: the stored rotation of every page, and the rotation the viewer draws
\* with, is one of 0, 90, 180 and 270.
C26_FourRotations ==
  /\ localRotation \in {0, 90, 180, 270}
  /\ \A page \in PageKeys : processingState.pageRotations[page] \in {0, 90, 180, 270}

\* C26, its case: a rotate-left at 0 degrees has given 270 on page 2, after
\* page 1 was rotated and left.
C26_Witness ==
  /\ lastOp = "handleRotationChange"
  /\ processingState.currentPage = 2
  /\ processingState.pageRotations[1] = 0
  /\ processingState.pageRotations[2] = 270
  /\ localRotation = 270

\* C27: the zoom level is at least 1/2 and at most 5.
C27_ZoomWithinLimits ==
  /\ 2 * zoomLevel[1] >= zoomLevel[2]
  /\ zoomLevel[1] <= 5 * zoomLevel[2]

\* C27, its case: a zoom-in at the upper limit has left the zoom at 5.
C27_Witness ==
  /\ lastOp = "handleZoomIn"
  /\ nZoom > 0
  /\ zoomLevel = <<5, 1>>

\* C23: after a new document is selected, or Upload New File is pressed, no
\* page holds an annotation made for a previous document, also when a table
\* detection or a batch of the previous document completes afterwards.
C23_AnnotationsOfThisDocument ==
  \A page \in PageKeys :
    \A i \in DOMAIN processingState.annotations[page] :
      processingState.annotations[page][i].doc = pdfInfo

\* C24: while an annotation is being moved, every pointer-move sets its bbox
\* to the initial bbox with the cumulative pointer delta (current pointer
\* minus gesture start) added to all four coordinates, so width and height
\* stay those of the initial bbox throughout the gesture.
C24_MoveIsCumulative ==
  (lastOp = "handleCanvasMouseMove" /\ isDrawing /\ resizeHandle = "move") =>
    \A i \in DOMAIN annotations :
      annotations[i].id = selectedAnnotation =>
        LET bbox == annotations[i].bbox
            dx == currentPoint[1] - startPoint[1]
            dy == currentPoint[2] - startPoint[2]
        IN /\ bbox = <<initialBbox[1] + dx, initialBbox[2] + dy,
                       initialBbox[3] + dx, initialBbox[4] + dy>>
           /\ bbox[3] - bbox[1] = initialBbox[3] - initialBbox[1]
           /\ bbox[4] - bbox[2] = initialBbox[4] - initialBbox[2]

\* C24, its case: the second pointer-move of a move of [40,20,60,90], grabbed
\* at (50,55), with the pointer now at (10,120).
C24_Witness ==
  /\ lastOp = "handleCanvasMouseMove"
  /\ isDrawing
  /\ resizeHandle = "move"
  /\ nMove = 2
  /\ initialBbox = <<40, 20, 60, 90>>
  /\ startPoint = <<50, 55>>
  /\ currentPoint = <<10, 120>>
  /\ Len(annotations) = 1
  /\ annotations[1].bbox = <<0, 85, 20, 155>>

C28_SelectedPages ==
  lastOp # "init" =>
    LET selection == tIn.selection
        pages == processingState.processedPages
        names(part, i) == IF part.kind = "range" THEN part.a <= i /\ i <= part.b
                          ELSE i = part.a
        named == {i \in 1..tIn.total_pages :
                    \/ selection.all
                    \/ \E k \in DOMAIN selection.parts : names(selection.parts[k], i)}
    IN /\ {pages[k] : k \in DOMAIN pages} = named
       /\ \A k \in DOMAIN pages : \A l \in DOMAIN pages : k < l => pages[k] < pages[l]
       /\ (/\ tIn.total_pages = 3
           /\ ~selection.all
           /\ selection.parts = <<Part("page", 1, 1), Part("page", 3, 3)>>) =>
            pages = <<1, 3>>

\* C28, its case: "1,3" has been selected for a 3-page document.
C28_Witness ==
  /\ lastOp # "init"
  /\ tIn.total_pages = 3
  /\ tIn.selection = Selection(FALSE, <<Part("page", 1, 1), Part("page", 3, 3)>>)
  /\ processingState.processedPages = <<1, 3>>
  /\ processingState.currentPage = 1

\* C29: an edit of one OCR text line adds or changes only the editedText of
\* that line: its text is not overwritten, and no field of any other text
\* line of the page changes.
C29_EditOneLine ==
  [][lastOp' = "handleTextEdit" =>
       LET k == tIn'[1]
       IN /\ textLines'[k] = [textLines[k] EXCEPT !.editedText = tIn'[2]]
          /\ \A i \in DOMAIN textLines : i # k => textLines'[i] = textLines[i]]_vars

\* C30: with a container of zero width or zero height the render pass is a
\* no-op: the canvas keeps its size and its scale factors, and nothing is
\* computed from a division by zero.
C30_ZeroContainerNoOp ==
  [][(lastOp' = "renderEffect" /\ (tIn'[1] = 0 \/ tIn'[2] = 0)) => tOut' = tOut]_vars

\* C31: a run of the render effect only draws: it leaves the scale state,
\* the selection, the gesture and the view transform of the viewer as they
\* were.
C31_RenderOnlyDraws ==
  [][lastOp' = "renderEffect" =>
       (tOut'.scale = tOut.scale /\ UNCHANGED <<gestureVars, viewVars>>)]_vars

\* C32: a form in which two fields have the same name is not submitted:
\* handleSubmit does not call onExtractFields.
C32_DuplicateNamesRejected ==
  (/\ lastOp = "handleSubmit"
   /\ \E i, j \in DOMAIN tIn.fields : i # j /\ tIn.fields[i].name = tIn.fields[j].name)
    => ~tOut.called

\* C33: at every rotation a pointer-down where a control of the selected
\* annotation is drawn resolves to that control: on the delete button it
\* deletes the annotation, on a corner handle it starts the resize of the
\* corner that is shown there.
C33_ControlsWhereDrawn ==
  [][\A c \in Controls :
       (/\ lastOp' = "handleCanvasMouseDown"
        /\ Mounted
        /\ ~isDrawing
        /\ FindIndex(annotations, selectedAnnotation) # 0
        /\ tIn = PointerOn(c))
       => IF c = "delete"
          THEN /\ selectedAnnotation' = NoId
               /\ ~\E i \in DOMAIN annotations' : annotations'[i].id = selectedAnnotation
          ELSE /\ selectedAnnotation' = selectedAnnotation
               /\ resizeHandle' \in Corners
               /\ CornerPoint(resizeHandle', initialBbox') = tIn]_vars

\* C34: the rotation the page image is drawn with (localRotation) equals the
\* rotation the boxes are placed with and the pointer is mapped with (the
\* rotation stored for the page shown), also right after a page change.
C34_DrawnRotationIsEffective ==
  Mounted => localRotation = getEffectiveRotation

\* C37: while a batch has a request outstanding or annotations still queued,
\* isProcessing is true; nothing else sets it to false meanwhile.
C37_ProcessingWhileBatchRuns ==
  (\E b \in DOMAIN batches : batches[b].pc # "done") => processingState.isProcessing

\* C40: with no gesture in progress startPoint, currentPoint, resizeHandle
\* and initialBbox are all null; in a gesture startPoint is set, and a
\* resize handle implies a selected annotation and an initial bbox.
C40_GestureFields ==
  /\ ~isDrawing =>
       /\ startPoint = NoPoint
       /\ currentPoint = NoPoint
       /\ resizeHandle = NoHandle
       /\ initialBbox = NoBbox
  /\ isDrawing =>
       /\ startPoint # NoPoint
       /\ resizeHandle # NoHandle => (selectedAnnotation # NoId /\ initialBbox # NoBbox)

\* C35: each annotation is submitted to the extraction service at most once,
\* also when Process Annotations is pressed again while a batch is running:
\* no two requests of a document carry the same annotation id.
C35_SubmittedOnce ==
  \A b1 \in DOMAIN batches : \A b2 \in DOMAIN batches :
    \A i1 \in DOMAIN batches[b1].requests : \A i2 \in DOMAIN batches[b2].requests :
      (/\ <<b1, i1>> # <<b2, i2>>
       /\ batches[b1].doc = batches[b2].doc) =>
        batches[b1].requests[i1].id # batches[b2].requests[i2].id

\* C36: an annotation deleted while a batch that has still to handle it is
\* running stays deleted: when its result or error arrives, the annotations
\* are left as they are; it is not re-added and no other annotation gets
\* its result.
C36_DeletedStaysDeleted ==
  [][\A b \in DOMAIN batches :
       (/\ b \in DOMAIN batches'
        /\ Len(batches'[b].outcomes) = Len(batches[b].outcomes) + 1
        /\ batches[b].anns[batches[b].idx].id \in batches[b].deleted) =>
         processingState'.annotations = processingState.annotations]_vars

\* C39: an annotation selected in the viewer is one of the annotations of
\* the page shown; after the selected annotation is deleted, the page is
\* changed or a new document is uploaded, nothing is selected.
C39_SelectionOnPage ==
  (Mounted /\ selectedAnnotation # NoId) =>
    \E i \in DOMAIN annotations : annotations[i].id = selectedAnnotation

====
